---- MODULE Spec2Model ----
(***************************************************************************)
(* Kernel smart account (createKernelAccount), its ECDSA validator and its *)
(* session-key validator with the permission matcher.                      *)
(*                                                                         *)
(* JavaScript strings are sequences of one-character strings, "0x" prefix  *)
(* included, so that slice, toLowerCase, pad and the string comparisons of *)
(* the matcher are computed as the code computes them.  An optional value  *)
(* is a sequence of length 0 (undefined) or 1.  ABI encodings and keccak   *)
(* hashes are injective constructors (tagged tuples).  chain is the set of  *)
(* addresses that hold contract bytecode.                                  *)
(***************************************************************************)
EXTENDS Integers, Sequences, FiniteSets, TLC

VARIABLES validators, accounts, chain, call

vars == <<validators, accounts, chain, call>>

(***************************************************************************)
(* Bounds of the model                                                     *)
(***************************************************************************)
MaxPerms == 2

MaxBatch == 2

MaxAccounts == 2

(***************************************************************************)
(* Strings                                                                 *)
(***************************************************************************)
None == <<>>

Some(x) == <<x>>

Coalesce(o, d) == IF o = <<>> THEN d ELSE o[1]

Rep(c, n) == [i \in 1..n |-> c]

Min(a, b) == IF a < b THEN a ELSE b

HexDigits == <<"0", "1", "2", "3", "4", "5", "6", "7", "8", "9", "a", "b", "c", "d", "e", "f">>

HexChars == {HexDigits[i] : i \in 1..16} \cup {"A", "B", "C", "D", "E", "F"}

toLowerCaseChar(c) ==
    IF c \in {"A", "B", "C", "D", "E", "F"}
    THEN CASE c = "A" -> "a"
           [] c = "B" -> "b"
           [] c = "C" -> "c"
           [] c = "D" -> "d"
           [] c = "E" -> "e"
           [] c = "F" -> "f"
    ELSE c

toLowerCase(s) == [i \in DOMAIN s |-> toLowerCaseChar(s[i])]

\* UTF-16 code unit of the characters the model uses
charCode(c) ==
    CASE c \in {"0", "1", "2", "3", "4", "5", "6", "7", "8", "9"} ->
           48 + (CHOOSE d \in 0..9 : HexDigits[d + 1] = c)
      [] c \in {"A", "B", "C", "D", "E", "F"} ->
           65 + (CHOOSE d \in 0..5 : HexDigits[d + 11] = toLowerCaseChar(c))
      [] c \in {"a", "b", "c", "d", "e", "f"} ->
           97 + (CHOOSE d \in 0..5 : HexDigits[d + 11] = c)
      [] c = "x" -> 120
      [] OTHER -> 122

\* s.slice(a, b) of JavaScript, 0 <= a <= b
slice(s, a, b) == SubSeq(s, a + 1, Min(b, Len(s)))

\* s < t of JavaScript strings: lexicographic on code units
RECURSIVE strLess(_, _)
strLess(s, t) ==
    IF t = <<>> THEN FALSE
    ELSE IF s = <<>> THEN TRUE
    ELSE IF charCode(s[1]) # charCode(t[1]) THEN charCode(s[1]) < charCode(t[1])
    ELSE strLess(Tail(s), Tail(t))

Hx(digits) == <<"0", "x">> \o digits

\* viem isHex (strict): /^0x[0-9a-fA-F]*$/
isHex(s) ==
    /\ Len(s) >= 2
    /\ s[1] = "0"
    /\ s[2] = "x"
    /\ \A i \in 3..Len(s) : s[i] \in HexChars

\* viem toHex of a string: the code units, two hex digits each
stringToHex(s) ==
    Hx([i \in 1..(2 * Len(s)) |->
          IF i % 2 = 1 THEN HexDigits[(charCode(s[(i + 1) \div 2]) \div 16) + 1]
                       ELSE HexDigits[(charCode(s[i \div 2]) % 16) + 1]])

\* the marker of a thrown exception where a value was expected
Throws == <<"throws", "throws", "throws">>

\* viem pad(hex, {size}): left-pads with zeros, throws when hex is longer
pad(hex, size) ==
    LET digits == slice(hex, 2, Len(hex))
    IN  IF Len(digits) > 2 * size THEN Throws
        ELSE Hx(Rep("0", 2 * size - Len(digits)) \o digits)

zeroAddress == Hx(Rep("0", 40))

(***************************************************************************)
(* Permissions of the session-key validator                                *)
(***************************************************************************)
OperationCall == 0

OperationDelegateCall == 1

EQUAL == 0

GREATER_THAN == 1

LESS_THAN == 2

GREATER_THAN_OR_EQUAL == 3

LESS_THAN_OR_EQUAL == 4

NOT_EQUAL == 5

DefaultSig == pad(Hx(<<>>), 4)

DefaultExecutionRule == [validAfter |-> 0, interval |-> 0, runs |-> 0]

\* mutant of NormalizePermission: an index given by the caller is kept
NormalizePermissionKeepsIndex(perm, index) ==
    [target        |-> perm.target,
     valueLimit    |-> Coalesce(perm.valueLimit, 0),
     sig           |-> Coalesce(perm.sig, DefaultSig),
     rules         |-> Coalesce(perm.rules, <<>>),
     index         |-> Coalesce(perm.index, index),
     executionRule |-> Coalesce(perm.executionRule, DefaultExecutionRule),
     operation     |-> Coalesce(perm.operation, OperationCall)]

\* sessionKeyData.permissions?.map((perm, index) => ({...})) ?? []
NormalizePermission(perm, index) ==
    [target        |-> perm.target,
     valueLimit    |-> Coalesce(perm.valueLimit, 0),
     sig           |-> Coalesce(perm.sig, DefaultSig),
     rules         |-> Coalesce(perm.rules, <<>>),
     index         |-> index,
     executionRule |-> Coalesce(perm.executionRule, DefaultExecutionRule),
     operation     |-> Coalesce(perm.operation, OperationCall)]

NormalizePermissions(perms) ==
    [i \in DOMAIN perms |-> NormalizePermission(perms[i], i - 1)]

\* ABI encoding of one permission tuple: fields in the order of the ABI
\* components, the address and the bytes4 as bytes (letter case is lost)
EncodePermissionTuple(p) ==
    <<p.index, toLowerCase(p.target), toLowerCase(p.sig), p.valueLimit,
      [i \in DOMAIN p.rules |->
          <<p.rules[i].offset, p.rules[i].condition, toLowerCase(p.rules[i].param)>>],
      <<p.executionRule.interval, p.executionRule.runs, p.executionRule.validAfter>>,
      p.operation>>

\* encodePermissionData(permission) and encodePermissionData(permission, merkleProof)
encodePermissionData(permission) == <<"abi", "tuple", EncodePermissionTuple(permission)>>

\* the proof is typed bytes32[][] when its first element is an array
encodePermissionDataWithProof(kind, perms, merkleProof) ==
    IF kind = "array"
    THEN <<"abi", "tuple[]", [i \in DOMAIN perms |-> EncodePermissionTuple(perms[i])],
           IF Len(merkleProof) > 0 THEN "bytes32[][]" ELSE "bytes32[]", merkleProof>>
    ELSE <<"abi", "tuple", EncodePermissionTuple(perms[1]), "bytes32[]", merkleProof>>

(***************************************************************************)
(* Merkle commitment (merkletreejs)                                        *)
(***************************************************************************)
keccak256(x) == <<"keccak256", x>>

\* sortPairs: the two nodes are sorted before they are hashed together
HashPair(a, b) == <<"keccak256", "pair", {a, b}>>

\* one round of _createHashes: pairs are hashed, an odd last node moves up
NextLayer(nodes) ==
    [i \in 1..((Len(nodes) + 1) \div 2) |->
        IF 2 * i <= Len(nodes) THEN HashPair(nodes[2 * i - 1], nodes[2 * i])
                               ELSE nodes[2 * i - 1]]

RECURSIVE Layers(_)
Layers(nodes) ==
    IF Len(nodes) <= 1 THEN <<nodes>> ELSE <<nodes>> \o Layers(NextLayer(nodes))

SentinelLeaf == pad(Hx(<<"0", "0">>), 32)

\* lines 204-219: the leaves and the layers of the tree
MerkleLeaves(permissions) ==
    LET encodedPermissionData ==
            [i \in DOMAIN permissions |-> encodePermissionData(permissions[i])]
        withDuplicate ==
            IF Len(encodedPermissionData) = 1
            THEN Append(encodedPermissionData, encodedPermissionData[1])
            ELSE encodedPermissionData
    IN  IF Len(permissions) # 0
        THEN [i \in DOMAIN withDuplicate |-> keccak256(withDuplicate[i])]
        ELSE <<SentinelLeaf>>

MerkleTree(permissions) == Layers(MerkleLeaves(permissions))

getHexRoot(tree) == tree[Len(tree)][1]

\* getProof: the sibling of the node on every layer, bottom up
RECURSIVE ProofFrom(_, _, _)
ProofFrom(tree, layer, index) ==
    IF layer > Len(tree) THEN <<>>
    ELSE LET pairIndex == IF index % 2 = 1 THEN index - 1 ELSE index + 1
             here == IF pairIndex < Len(tree[layer])
                     THEN <<tree[layer][pairIndex + 1]>> ELSE <<>>
         IN  here \o ProofFrom(tree, layer + 1, index \div 2)

\* mutant of getHexProof: the proof holds no sibling
getHexProofEmpty(tree, leaf) == <<>>

getHexProof(tree, leaf) ==
    IF \E i \in DOMAIN tree[1] : tree[1][i] = leaf
    THEN ProofFrom(tree, 1, (CHOOSE i \in DOMAIN tree[1] :
                                /\ tree[1][i] = leaf
                                /\ \A j \in 1..(i - 1) : tree[1][j] # leaf) - 1)
    ELSE <<>>

(***************************************************************************)
(* Permission matcher                                                      *)
(***************************************************************************)
\* mutant of filterByOperation: only the permissions of the operation pass
filterByOperationStrict(permissions, operation) ==
    SelectSeq(permissions, LAMBDA permission : permission.operation = operation)

\* filterByOperation(permissions, operation)
filterByOperation(permissions, operation) ==
    SelectSeq(permissions,
              LAMBDA permission : \/ permission.operation = operation
                                  \/ OperationCall = operation)

\* mutant of filterBySignature: the selector of the call is not compared
filterBySignatureAny(permissions, signature) == permissions

\* filterBySignature(permissions, signature)
filterBySignature(permissions, signature) ==
    SelectSeq(permissions, LAMBDA permission : toLowerCase(permission.sig) = signature)

\* x.toLowerCase() where evaluating x may have thrown
LowerOrThrows(padded) == IF padded = Throws THEN Throws ELSE toLowerCase(padded)

\* mutant of getFormattedHex: the letter case of the operand is kept
getFormattedHexKeepsCase(value) ==
    pad(IF isHex(value) THEN value ELSE stringToHex(value), 32)

\* getFormattedHex(value)
getFormattedHex(value) ==
    LowerOrThrows(pad(IF isHex(value) THEN value ELSE stringToHex(value), 32))

\* evaluateRuleCondition(dataParam, ruleParam, condition)
evaluateRuleCondition(dataParam, ruleParam, condition) ==
    CASE condition = EQUAL -> dataParam = ruleParam
      [] condition = GREATER_THAN -> strLess(ruleParam, dataParam)
      [] condition = LESS_THAN -> strLess(dataParam, ruleParam)
      [] condition = GREATER_THAN_OR_EQUAL -> ~strLess(dataParam, ruleParam)
      [] condition = LESS_THAN_OR_EQUAL -> ~strLess(ruleParam, dataParam)
      [] condition = NOT_EQUAL -> dataParam # ruleParam
      [] OTHER -> FALSE

\* the test of one rule on its two formatted operands: "pass", "fail", or
\* "throws" when pad rejected an operand
RuleTest(dataParam, ruleParam, condition) ==
    IF dataParam = Throws \/ ruleParam = Throws THEN "throws"
    ELSE IF evaluateRuleCondition(dataParam, ruleParam, condition)
         THEN "pass" ELSE "fail"

\* mutant of RuleOutcome: bytes missing from the call data are appended as
\* zeros after the bytes that are present
RuleOutcomeRightPadded(rule, data) ==
    LET present == slice(data, 10 + rule.offset * 2, 10 + rule.offset * 2 + 64)
    IN  RuleTest(getFormattedHex(Hx(present \o Rep("0", 64 - Len(present)))),
                 getFormattedHex(rule.param),
                 rule.condition)

\* the body of the loop of findPermissionByRule for one rule
RuleOutcome(rule, data) ==
    RuleTest(getFormattedHex(
                 Hx(slice(data, 10 + rule.offset * 2, 10 + rule.offset * 2 + 64))),
             getFormattedHex(rule.param),
             rule.condition)

\* for (const rule of permission.rules ?? []) ... return true
RECURSIVE RulesOutcome(_, _)
RulesOutcome(rules, data) ==
    IF rules = <<>> THEN "pass"
    ELSE IF RuleOutcome(rules[1], data) = "pass"
         THEN RulesOutcome(Tail(rules), data)
         ELSE RuleOutcome(rules[1], data)

\* findPermissionByRule(permissions, data): None, Some(permission) or Throws
RECURSIVE findPermissionByRule(_, _)
findPermissionByRule(permissions, data) ==
    IF permissions = <<>> THEN None
    ELSE LET outcome == RulesOutcome(permissions[1].rules, data)
         IN  CASE outcome = "pass" -> Some(permissions[1])
               [] outcome = "throws" -> Throws
               [] OTHER -> findPermissionByRule(Tail(permissions), data)

\* Array.prototype.sort with the comparator of lines 365-373: stable,
\* descending valueLimit
RECURSIVE InsertByValueLimit(_, _)
InsertByValueLimit(sorted, p) ==
    IF sorted = <<>> THEN <<p>>
    ELSE IF sorted[1].valueLimit >= p.valueLimit
         THEN <<sorted[1]>> \o InsertByValueLimit(Tail(sorted), p)
         ELSE <<p>> \o sorted

\* mutant of SortByValueLimit: the permissions stay in the order of the list
SortByValueLimitKeepsOrder(permissions) == permissions

RECURSIVE SortByValueLimit(_)
SortByValueLimit(permissions) ==
    IF permissions = <<>> THEN <<>>
    ELSE InsertByValueLimit(SortByValueLimit(SubSeq(permissions, 1, Len(permissions) - 1)),
                            permissions[Len(permissions)])

\* the callback of targets.map in filterPermissions, for one
\* (target, data, value): None, Some(permission) or Throws.  The three
\* operators are the successive stages of the callback.
\* lines 359-375: the value filter has run
FilterSorted(valueLimitPermissions, data) ==
    IF Len(valueLimitPermissions) = 0 THEN None
    ELSE findPermissionByRule(SortByValueLimit(valueLimitPermissions), data)

\* the filter of lines 359-361
valueLimitFilter(signaturePermissions, value) ==
    SelectSeq(signaturePermissions, LAMBDA permission : permission.valueLimit >= value)

\* lines 344-363: the target filter has run
FilterTargeted(targetPermissions, data, value) ==
    IF Len(targetPermissions) = 0 THEN None
    ELSE IF Len(filterByOperation(targetPermissions, OperationCall)) = 0 THEN None
    ELSE FilterSorted(
             valueLimitFilter(
                 filterBySignature(targetPermissions, toLowerCase(slice(data, 0, 10))),
                 value),
             data)

\* zeroAddress.toLowerCase()
zeroAddressLower == toLowerCase(zeroAddress)

\* the test of the filter of lines 337-342 on permission.target.toLowerCase()
targetMatches(permissionTarget, targetToMatch) ==
    \/ permissionTarget = targetToMatch
    \/ permissionTarget = zeroAddressLower

\* mutant of targetFilter: every permission is a candidate
targetFilterAll(permissionsList, targetToMatch) == permissionsList

\* the filter of lines 337-342
targetFilter(permissionsList, targetToMatch) ==
    SelectSeq(permissionsList,
              LAMBDA permission :
                  targetMatches(toLowerCase(permission.target), targetToMatch))

FilterOne(permissionsList, target, data, value) ==
    IF Len(permissionsList) = 0 THEN None
    ELSE FilterTargeted(targetFilter(permissionsList, toLowerCase(target)), data, value)

\* filterPermissions(targets, dataArray, values) on the calls of a batch:
\* the list of matched permissions, or undefined (also when a callback threw,
\* which findMatchingPermissions catches)
Undefined == [kind |-> "undefined", perms |-> <<>>]

\* mutant of EveryDefined: the calls without a permission are dropped and
\* the permissions of the others are returned
EveryDefinedPartial(filteredPermissions) ==
    LET defined == SelectSeq(filteredPermissions, LAMBDA q : q # None /\ q # Throws)
    IN  IF defined = <<>> /\ filteredPermissions # <<>>
        THEN Undefined
        ELSE [kind |-> "array", perms |-> [i \in DOMAIN defined |-> defined[i][1]]]

\* mutant of EveryDefined: an empty list of calls has no match
EveryDefinedNotEmpty(filteredPermissions) ==
    IF /\ filteredPermissions # <<>>
       /\ \A i \in DOMAIN filteredPermissions :
              filteredPermissions[i] # None /\ filteredPermissions[i] # Throws
    THEN [kind |-> "array",
          perms |-> [i \in DOMAIN filteredPermissions |-> filteredPermissions[i][1]]]
    ELSE Undefined

\* filteredPermissions.every((permission) => permission !== undefined) ? ... : undefined
EveryDefined(filteredPermissions) ==
    IF \A i \in DOMAIN filteredPermissions :
           filteredPermissions[i] # None /\ filteredPermissions[i] # Throws
    THEN [kind |-> "array",
          perms |-> [i \in DOMAIN filteredPermissions |-> filteredPermissions[i][1]]]
    ELSE Undefined

filterPermissions(permissionsList, calls) ==
    EveryDefined([i \in DOMAIN calls |->
                     FilterOne(permissionsList, calls[i].to, calls[i].data, calls[i].value)])

\* filterPermissions([to], [data], [value])?.[0]
FirstOf(filtered) ==
    IF filtered.kind = "undefined" THEN Undefined
    ELSE [kind |-> "single", perms |-> <<filtered.perms[1]>>]

\* mutant of findMatchingPermissions: a call that is not execute or
\* executeBatch, or cannot be decoded, is matched with an empty list
findMatchingPermissionsLenient(permissionsList, callData) ==
    IF callData.functionName # "execute" /\ callData.functionName # "executeBatch"
    THEN [kind |-> "array", perms |-> <<>>]
    ELSE IF callData.functionName = "execute"
         THEN FirstOf(filterPermissions(permissionsList, callData.calls))
    ELSE filterPermissions(permissionsList, callData.calls)

\* findMatchingPermissions(callData); callData is the decoded call:
\* functionName "execute" with one call, "executeBatch" with a list, another
\* function of the account ABI, or "" when decodeFunctionData throws
findMatchingPermissions(permissionsList, callData) ==
    IF callData.functionName = "" THEN Undefined
    ELSE IF callData.functionName # "execute" /\ callData.functionName # "executeBatch"
         THEN Undefined
    ELSE IF callData.functionName = "execute"
         THEN FirstOf(filterPermissions(permissionsList, callData.calls))
    ELSE filterPermissions(permissionsList, callData.calls)

\* getEncodedPermissionProofData(callData):
\* [error |-> ...] or [error |-> "", matching |-> ..., data |-> ...]
NoMatchingPermission == "SessionKeyValidator: No matching permission found for the userOp"

EmptyBytes == Hx(<<>>)

\* mutant of ProofDataOf: no match is an error whatever the root of the tree
ProofDataOfNoSentinel(v, matchingPermission) ==
    IF matchingPermission.kind = "undefined"
    THEN [error |-> NoMatchingPermission, matching |-> matchingPermission,
          data |-> EmptyBytes]
    ELSE [error |-> "", matching |-> matchingPermission, data |-> EmptyBytes]

ProofDataOf(v, matchingPermission) ==
    LET matched == matchingPermission.kind # "undefined"
        merkleProof ==
            IF matchingPermission.kind = "array"
            THEN [i \in DOMAIN matchingPermission.perms |->
                     getHexProof(v.merkleTree,
                                 keccak256(encodePermissionData(matchingPermission.perms[i])))]
            ELSE IF matched
            THEN getHexProof(v.merkleTree,
                             keccak256(IF Len(v.permissions) # 0
                                       THEN encodePermissionData(matchingPermission.perms[1])
                                       ELSE EmptyBytes))
            ELSE <<>>
    IN  IF ~matched /\ getHexRoot(v.merkleTree) # pad(Hx(<<"0", "0">>), 32)
        THEN [error |-> NoMatchingPermission, matching |-> matchingPermission,
              data |-> EmptyBytes]
        ELSE [error |-> "", matching |-> matchingPermission,
              data |-> IF Len(v.permissions) # 0 /\ matched
                       THEN encodePermissionDataWithProof(matchingPermission.kind,
                                                          matchingPermission.perms,
                                                          merkleProof)
                       ELSE EmptyBytes]

getEncodedPermissionProofData(v, callData) ==
    ProofDataOf(v, findMatchingPermissions(v.permissions, callData))

(***************************************************************************)
(* Numbers and hex                                                         *)
(***************************************************************************)
hexDigitValue(c) == (CHOOSE d \in 1..16 : HexDigits[d] = toLowerCaseChar(c)) - 1

\* BigInt(`0x${digits}`), digits not empty
RECURSIVE hexToBigInt(_)
hexToBigInt(digits) ==
    IF Len(digits) = 1 THEN hexDigitValue(digits[1])
    ELSE 16 * hexToBigInt(SubSeq(digits, 1, Len(digits) - 1)) + hexDigitValue(digits[Len(digits)])

\* n.toString(16)
RECURSIVE toString16(_)
toString16(n) ==
    IF n < 16 THEN <<HexDigits[n + 1]>>
    ELSE toString16(n \div 16) \o <<HexDigits[(n % 16) + 1]>>

\* viem toHex of a number
toHex(n) == Hx(toString16(n))

\* byte length of a piece of a hex string: hex.length / 2 - 1 for a string,
\* 32 for a keccak hash
ByteLength(piece) ==
    IF piece[1] = "keccak256" THEN 32 ELSE (Len(piece) - 2) \div 2

RECURSIVE SumByteLength(_)
SumByteLength(pieces) ==
    IF pieces = <<>> THEN 0 ELSE ByteLength(pieces[1]) + SumByteLength(Tail(pieces))

(***************************************************************************)
(* Signature normalization                                                 *)
(***************************************************************************)
InvalidSignedData == "Invalid signed data"

\* mutant of fixSignedData: the recovery byte is passed through as it is
fixSignedDataKeepsV(sig) ==
    LET signature == IF isHex(sig) THEN sig ELSE Hx(sig)
    IN  IF ~isHex(signature) THEN [error |-> InvalidSignedData, value |-> EmptyBytes]
        ELSE IF Len(signature) < 132
             THEN [error |-> "hexToSignature failed", value |-> EmptyBytes]
        ELSE [error |-> "", value |-> toLowerCase(signature)]

\* mutant of fixSignedData: input that is not hex is returned as it is
fixSignedDataLenient(sig) ==
    LET signature == IF isHex(sig) THEN sig ELSE Hx(sig)
        v == hexToBigInt(slice(signature, 130, Len(signature)))
    IN  IF ~isHex(signature) THEN [error |-> "", value |-> sig]
        ELSE IF Len(signature) < 132
             THEN [error |-> "hexToSignature failed", value |-> EmptyBytes]
        ELSE [error |-> "",
              value |-> Hx(toLowerCase(slice(signature, 2, 130))
                           \o toString16(IF v = 0 \/ v = 1 THEN v + 27 ELSE v))]

\* fixSignedData(sig): [error, value]
fixSignedData(sig) ==
    LET signature == IF isHex(sig) THEN sig ELSE Hx(sig)
        compact == slice(signature, 2, 130)
        vDigits == slice(signature, 130, Len(signature))
        v == hexToBigInt(vDigits)
        fixedV == IF v = 0 \/ v = 1 THEN v + 27 ELSE v
    IN  IF ~isHex(signature) THEN [error |-> InvalidSignedData, value |-> EmptyBytes]
        ELSE IF Len(compact) # 128 \/ vDigits = <<>>
             THEN [error |-> "hexToSignature failed", value |-> EmptyBytes]
        ELSE [error |-> "", value |-> Hx(toLowerCase(compact) \o toString16(fixedV))]

(***************************************************************************)
(* Addresses and constants                                                 *)
(***************************************************************************)
ACCOUNT_V2_3_LOGIC ==
    <<"0", "x", "D", "3", "F", "5", "8", "2", "F", "6", "B", "4", "8", "1", "4", "E", "9", "8", "9", "E", "e", "8", "E", "9", "6", "b", "c", "3", "1", "7", "5", "3", "2", "0", "B", "5", "A", "5", "4", "0", "a", "b">>

FACTORY_ADDRESS ==
    <<"0", "x", "5", "d", "e", "4", "8", "3", "9", "a", "7", "6", "c", "f", "5", "5", "d", "0", "c", "9", "0", "e", "2", "0", "6", "1", "e", "f", "4", "3", "8", "6", "d", "9", "6", "2", "E", "1", "5", "a", "e", "3">>

ENTRYPOINT_V0_6 ==
    <<"0", "x", "5", "F", "F", "1", "3", "7", "D", "4", "b", "0", "F", "D", "C", "D", "4", "9", "D", "c", "A", "3", "0", "c", "7", "C", "F", "5", "7", "E", "5", "7", "8", "a", "0", "2", "6", "d", "2", "7", "8", "9">>

\* the two validator contract addresses are imported constants; the model
\* only needs them to be distinct
ECDSA_VALIDATOR_ADDRESS == Hx(Rep("e", 40))

SESSION_KEY_VALIDATOR_ADDRESS == Hx(Rep("5", 40))

\* ValidatorMode: the 4-byte mode header
ModeSudo == Hx(<<"0", "0", "0", "0", "0", "0", "0", "0">>)

ModePlugin == Hx(<<"0", "0", "0", "0", "0", "0", "0", "1">>)

ModeEnable == Hx(<<"0", "0", "0", "0", "0", "0", "0", "2">>)

\* constants.DUMMY_ECDSA_SIG, the 65 bytes of the placeholder of the ECDSA validator
DUMMY_ECDSA_SIG ==
    Hx(Rep("f", 31) \o Rep("0", 33) \o <<"7">> \o Rep("a", 63) \o <<"1", "c">>)

\* mutant of EcdsaDummySignature: the placeholder without the mode prefix
EcdsaDummySignatureWithoutMode == DUMMY_ECDSA_SIG

\* the literal returned by the ECDSA validator's getDummySignature
EcdsaDummySignature == Hx(Rep("0", 8) \o slice(DUMMY_ECDSA_SIG, 2, 132))

ChainId == 80001

(***************************************************************************)
(* Validators                                                              *)
(***************************************************************************)
\* signerToEcdsaValidator
EcdsaValidator(signer) ==
    [kind        |-> "ECDSAValidator",
     address     |-> ECDSA_VALIDATOR_ADDRESS,
     signer      |-> signer,
     entryPoint  |-> ENTRYPOINT_V0_6,
     sessionKey  |-> <<>>,
     permissions |-> <<>>,
     merkleTree  |-> <<>>,
     mode        |-> <<>>,
     executorData |-> <<>>,
     validAfter  |-> 0,
     validUntil  |-> 0,
     paymaster   |-> <<>>]

\* _executorData of signerToSessionKeyValidator when none is given; the
\* selector is that of execute(address, uint256, bytes, uint8)
DefaultExecutorData ==
    [executor |-> zeroAddress, selector |-> Hx(<<"5", "1", "9", "4", "5", "4", "4", "7">>),
     validAfter |-> 0, validUntil |-> 0]

\* signerToSessionKeyValidator: lines 152-219
SessionKeyValidator(signer, sessionKey, permissions, mode) ==
    LET normalized == NormalizePermissions(permissions)
    IN  [kind        |-> "SessionKeyValidator",
         address     |-> SESSION_KEY_VALIDATOR_ADDRESS,
         signer      |-> signer,
         entryPoint  |-> ENTRYPOINT_V0_6,
         sessionKey  |-> sessionKey,
         permissions |-> normalized,
         merkleTree  |-> MerkleTree(normalized),
         mode        |-> mode,
         executorData |-> DefaultExecutorData,
         validAfter  |-> 0,
         validUntil  |-> 0,
         paymaster   |-> zeroAddress]

\* a validator that implements the whole KernelPlugin interface and whose
\* getPluginApproveSignature returns bytes
PluginValidator(signer, address) ==
    [kind        |-> "KernelPlugin",
     address     |-> address,
     signer      |-> signer,
     entryPoint  |-> ENTRYPOINT_V0_6,
     sessionKey  |-> <<>>,
     permissions |-> <<>>,
     merkleTree  |-> <<>>,
     mode        |-> <<>>,
     executorData |-> <<>>,
     validAfter  |-> 0,
     validUntil  |-> 0,
     paymaster   |-> <<>>]

\* getUserOperationHash({userOperation, entryPoint, chainId}) of permissionless:
\* a hash of every field of the operation, the entry point and the chain id
getUserOperationHash(userOperation, entryPoint, chainId) ==
    <<"keccak256", "userOp", userOperation, entryPoint, chainId>>

\* mutant of userOperationToHash: the operation is hashed as the caller gave it
userOperationAsGiven(userOperation) == userOperation

\* { ...userOperation, signature: "0x" }: the copy of the operation that
\* signUserOperation hashes
userOperationToHash(userOperation) == [userOperation EXCEPT !.signature = EmptyBytes]

(***************************************************************************)
(* Calls in flight.  A call is the invocation of an operation of an        *)
(* account or of a validator; pc is the await it is suspended at.          *)
(***************************************************************************)
IdleCall ==
    [pc |-> "idle", op |-> "", account |-> None, v |-> None, args |-> None,
     approve |-> "none", approveResult |-> None, pluginEnableSignature |-> None,
     validatorStarted |-> FALSE, userOpHash |-> None, signed |-> None,
     enableData |-> None, initCode |-> None, outcome |-> "", error |-> "", result |-> None,
     matching |-> Undefined,
     proof |-> EmptyBytes,
     bytecode |-> None, deployedAtStart |-> FALSE]

Fail(c, error) == [c EXCEPT !.pc = "done", !.outcome = "error", !.error = error]

Succeed(c, result) == [c EXCEPT !.pc = "done", !.outcome = "ok", !.result = Some(result)]

UnsupportedOperation == "SignTransactionNotSupportedBySmartAccount"

(***************************************************************************)
(* Session-key validator: signature construction                           *)
(***************************************************************************)
\* the tail of signUserOperation / getDummySignature once the header is
\* known: concat([header, sessionKey.address, signature, proof data])
SkConcat(c, header, proofData) ==
    LET v == c.v[1]
        ecdsa == IF c.op = "signUserOperation" THEN c.signed[1] ELSE DUMMY_ECDSA_SIG
    IN  IF proofData.error # ""
        THEN [Fail(c, proofData.error) EXCEPT !.matching = proofData.matching]
        ELSE [Succeed(c, header \o <<v.sessionKey.address, ecdsa, proofData.data>>)
                 EXCEPT !.matching = proofData.matching, !.proof = proofData.data]

SkFinish(c, header) ==
    SkConcat(c, header, getEncodedPermissionProofData(c.v[1], c.args[1].callData))

\* mutant of SkEnableData: the nonce is not padded to 32 bytes
SkEnableDataShortNonce(v, lastNonce) ==
    <<v.sessionKey.address,
      getHexRoot(v.merkleTree),
      pad(toHex(v.validAfter), 6),
      pad(toHex(v.validUntil), 6),
      v.paymaster,
      pad(toHex(lastNonce + 1), 1)>>

\* getEnableData(kernelAccountAddress) after the nonces are read
SkEnableData(v, lastNonce) ==
    <<v.sessionKey.address,
      getHexRoot(v.merkleTree),
      pad(toHex(v.validAfter), 6),
      pad(toHex(v.validUntil), 6),
      v.paymaster,
      pad(toHex(lastNonce + 1), 32)>>

\* getValidatorSignature(accountAddress, pluginEnableSignature) up to its
\* first await: in sudo and plugin mode the header is the mode, in enable mode
\* getEnableData reads the nonces of the account
SkGetValidatorSignature(c) ==
    LET v == c.v[1]
    IN  IF v.mode = ModeSudo \/ v.mode = ModePlugin THEN SkFinish(c, <<v.mode>>)
        ELSE IF c.args[1].sender = <<>>
             THEN Fail(c, "Kernel account address not provided")
        ELSE [c EXCEPT !.pc = "nonces"]

\* getValidatorSignature after getEnableData returned
SkHeader(c, lastNonce) ==
    LET v == c.v[1]
        enableData == SkEnableData(v, lastNonce)
        enableDataLength == SumByteLength(enableData)
        enableSignature == c.pluginEnableSignature
    IN  IF enableSignature = None \/ enableSignature = Some(<<>>)
        THEN Fail(c, "Enable signature not set")
        ELSE SkFinish(c,
               <<v.mode,
                 pad(toHex(v.executorData.validUntil), 6),
                 pad(toHex(v.executorData.validAfter), 6),
                 pad(v.address, 20),
                 pad(v.executorData.executor, 20),
                 pad(toHex(enableDataLength), 32)>>
               \o enableData
               \o <<pad(toHex(ByteLength(enableSignature[1])), 32), enableSignature[1]>>)

(***************************************************************************)
(* Validator operations                                                    *)
(***************************************************************************)
\* validator.signUserOperation(userOperation, pluginEnableSignature) up to
\* its first await
StartSignUserOperation(c, v, userOperation, pluginEnableSignature) ==
    LET started == [c EXCEPT !.v = Some(v), !.args = Some(userOperation),
                             !.pluginEnableSignature = pluginEnableSignature,
                             !.validatorStarted = TRUE,
                             !.op = "signUserOperation"]
    IN  IF v.kind = "KernelPlugin"
        THEN Succeed(started, <<"signature of", v.address>>)
        ELSE [started EXCEPT
                 !.pc = "signMessage",
                 !.userOpHash = Some(getUserOperationHash(userOperationToHash(userOperation),
                                                          v.entryPoint, ChainId))]

\* validator.getDummySignature(userOperation, pluginEnableSignature) up to
\* its first await
StartGetDummySignature(c, v, userOperation, pluginEnableSignature) ==
    LET started == [c EXCEPT !.v = Some(v), !.args = Some(userOperation),
                             !.pluginEnableSignature = pluginEnableSignature,
                             !.validatorStarted = TRUE,
                             !.op = "getDummySignature"]
    IN  CASE v.kind = "ECDSAValidator" -> Succeed(started, <<EcdsaDummySignature>>)
          [] v.kind = "SessionKeyValidator" -> SkGetValidatorSignature(started)
          [] OTHER -> Succeed(started, <<"dummy signature of", v.address>>)

\* the continuation of signUserOperation when signMessage settles
SkAfterSignMessage(c, fixed) ==
    IF fixed.error # "" THEN Fail(c, fixed.error)
    ELSE SkGetValidatorSignature([c EXCEPT !.signed = Some(fixed.value)])

AfterSignMessage(c, response) ==
    IF ~response.ok THEN Fail(c, "signMessage failed")
    ELSE IF c.v[1].kind = "ECDSAValidator"
         THEN Succeed([c EXCEPT !.signed = Some(response.signature)],
                      <<ModeSudo, response.signature>>)
    ELSE SkAfterSignMessage(c, fixSignedData(response.signature))

\* the continuation of getValidatorSignature when readContract settles
AfterNonces(c, response) ==
    IF ~response.ok THEN Fail(c, "readContract failed")
    ELSE SkHeader(c, response.lastNonce)

(***************************************************************************)
(* Kernel account                                                          *)
(***************************************************************************)
\* getAccountInitCode: concatHex([factoryAddress, createAccount(logic, initialize(validator, enableData), index)])
getAccountInitCode(owner, index, factoryAddress, accountLogicAddress, validatorAddress, enableData) ==
    LET initialisationData ==
            <<"abi", "initialize", toLowerCase(validatorAddress), toLowerCase(enableData)>>
    IN  <<"concatHex", factoryAddress,
          <<"abi", "createAccount", toLowerCase(accountLogicAddress), initialisationData, index>>>>

\* mutant of generateInitCode: the init code names the active validator
generateInitCodeOfCurrentValidator(defaultValidator, plugin, index, enableData) ==
    getAccountInitCode(defaultValidator.signer.address, index, FACTORY_ADDRESS,
                       ACCOUNT_V2_3_LOGIC, Coalesce(plugin, defaultValidator).address,
                       enableData)

\* generateInitCode of createKernelAccount, given what getEnableData returned
generateInitCode(defaultValidator, plugin, index, enableData) ==
    getAccountInitCode(defaultValidator.signer.address, index, FACTORY_ADDRESS,
                       ACCOUNT_V2_3_LOGIC, defaultValidator.address, enableData)

\* the inputs of the derivation of an address, kept with the account
Derivation(defaultValidator, index, enableData, initCode) ==
    [owner               |-> defaultValidator.signer.address,
     index               |-> index,
     factoryAddress      |-> FACTORY_ADDRESS,
     accountLogicAddress |-> ACCOUNT_V2_3_LOGIC,
     validatorAddress    |-> defaultValidator.address,
     enableData          |-> enableData,
     initCode            |-> initCode]

\* the entry-point oracle: the counterfactual address of an init code
getSenderAddress(initCode, entryPoint) == <<"sender", toLowerCase(initCode[2]), initCode[3]>>

\* the account handle that createKernelAccount returns
KernelSmartAccount(params, accountAddress, derivation) ==
    [address          |-> accountAddress,
     derivation       |-> derivation,
     defaultValidator |-> params.defaultValidator,
     plugin           |-> params.plugin,
     index            |-> params.index,
     entryPoint       |-> ENTRYPOINT_V0_6]

\* const currentValidator = plugin ?? defaultValidator
currentValidator(a) == Coalesce(a.plugin, a.defaultValidator)

\* encodeCallData(_tx): tx.isArray tells a list of calls from a single call
encodeCallData(tx) ==
    IF tx.isArray
    THEN [functionName |-> "executeBatch",
          calls |-> [i \in DOMAIN tx.calls |->
                        [to |-> tx.calls[i].to, value |-> tx.calls[i].value,
                         data |-> tx.calls[i].data]],
          operation |-> None]
    ELSE [functionName |-> "execute",
          calls |-> <<[to |-> tx.calls[1].to, value |-> tx.calls[1].value,
                       data |-> tx.calls[1].data]>>,
          operation |-> Some(0)]

(***************************************************************************)
(* Inputs                                                                  *)
(***************************************************************************)
AddrA == Hx(<<"A", "b">> \o Rep("0", 38))

AddrB == Hx(Rep("b", 40))

DeployedAddr == Hx(Rep("d", 40))

Signer1 == [address |-> Hx(<<"C", "1">> \o Rep("1", 38))]

SessionKey == [address |-> Hx(Rep("7", 40))]

SelA == Hx(Rep("a", 8))

SelB == Hx(Rep("b", 8))

SelBUpper == Hx(Rep("B", 8))

\* the 32-byte word whose last hex digit is d
Word(d) == Rep("0", 63) \o <<d>>

PermissionInput(target, sig, valueLimit, rules, operation, index) ==
    [target |-> target, sig |-> sig, valueLimit |-> valueLimit, rules |-> rules,
     operation |-> operation, index |-> index, executionRule |-> None]

P1 == PermissionInput(AddrA, None, Some(10), None, None, None)

P2 == PermissionInput(AddrA, None, Some(5), None, None, Some(7))

P3 == PermissionInput(toLowerCase(AddrA), Some(SelA), None, None, None, None)

P4 == PermissionInput(zeroAddress, Some(SelBUpper), Some(7),
                      Some(<<[offset |-> 0, condition |-> EQUAL, param |-> Hx(Word("1"))]>>),
                      Some(OperationDelegateCall), None)

PermissionPool == {P1, P2, P3, P4}

SeqsUpTo(S, n) == UNION {[1..k -> S] : k \in 0..n}

PermissionLists == SeqsUpTo(PermissionPool, MaxPerms)

Modes == {ModeSudo, ModePlugin, ModeEnable}

Tx(to, value, data) == [to |-> to, value |-> value, data |-> data]

T1 == Tx(toLowerCase(AddrA), 7, EmptyBytes)

T2 == Tx(AddrA, 0, SelA)

T3 == Tx(AddrA, 0, SelB \o Word("1"))

T4 == Tx(AddrA, 7, Hx(Rep("0", 8)))

TxPool == {T1, T2, T3, T4}

\* call data as the account ABI decodes it
Execute(tx) == encodeCallData([isArray |-> FALSE, calls |-> <<tx>>, callType |-> None])

ExecuteBatch(txs) == encodeCallData([isArray |-> TRUE, calls |-> txs, callType |-> None])

OtherCallData == [functionName |-> "executeDelegateCall", calls |-> <<>>, operation |-> None]

UndecodableCallData == [functionName |-> "", calls |-> <<>>, operation |-> None]

CallDatas ==
    {Execute(tx) : tx \in TxPool}
      \cup {ExecuteBatch(txs) : txs \in SeqsUpTo(TxPool, MaxBatch)}
      \cup {OtherCallData, UndecodableCallData}

AccountAddr == Hx(Rep("c", 40))

UserOperation(sender, callData) ==
    [sender |-> sender, callData |-> callData, signature |-> EmptyBytes]

ApproveSignature == Hx(Rep("9", 130))

EnableSignatures == {None, Some(ApproveSignature)}

Signature(v) == Hx(Rep("1", 64) \o Rep("2", 64) \o v)

SignerResponses ==
    {[ok |-> FALSE, signature |-> EmptyBytes],
     [ok |-> TRUE, signature |-> Signature(<<"0", "0">>)],
     [ok |-> TRUE, signature |-> Signature(<<"1", "c">>)]}

NonceResponses == {[ok |-> FALSE, lastNonce |-> 0], [ok |-> TRUE, lastNonce |-> 0]}

(***************************************************************************)
(* Actions                                                                 *)
(***************************************************************************)
\* mutant of ValidatorsAfter: the matcher sorts the stored permission list
\* itself
ValidatorsAfterSortInPlace(vs, c) ==
    IF /\ c.pc = "done"
       /\ c.v # None
       /\ c.v[1].kind = "SessionKeyValidator"
       /\ c.outcome = "ok" \/ c.error = NoMatchingPermission
    THEN (vs \ {c.v[1]})
           \cup {[c.v[1] EXCEPT !.permissions = SortByValueLimit(c.v[1].permissions)]}
    ELSE vs

\* mutant of ValidatorsAfter: the matcher leaves only the matched permissions
\* in the stored list
ValidatorsAfterKeepsMatched(vs, c) ==
    IF /\ c.pc = "done"
       /\ c.v # None
       /\ c.v[1].kind = "SessionKeyValidator"
       /\ c.outcome = "ok"
       /\ c.matching.kind # "undefined"
    THEN (vs \ {c.v[1]}) \cup {[c.v[1] EXCEPT !.permissions = c.matching.perms]}
    ELSE vs

\* the validators after a step of a signing call that leaves the call as c:
\* the matcher filters the stored permission list into new arrays and sorts
\* the last of them in place, the signature is concatenated from values, and
\* nothing is assigned to the validator or to its data
ValidatorsAfter(vs, c) == vs

\* validator.signUserOperation called directly on a validator
ValidatorSignUserOperation ==
    /\ call.pc = "idle"
    /\ \E v \in validators, callData \in CallDatas, pes \in EnableSignatures :
          call' = StartSignUserOperation(IdleCall, v, UserOperation(AccountAddr, callData), pes)
    /\ validators' = ValidatorsAfter(validators, call')
    /\ UNCHANGED <<accounts, chain>>

\* validator.getDummySignature called directly on a validator
ValidatorGetDummySignature ==
    /\ call.pc = "idle"
    /\ \E v \in validators, callData \in CallDatas, pes \in EnableSignatures :
          call' = StartGetDummySignature(IdleCall, v, UserOperation(AccountAddr, callData), pes)
    /\ validators' = ValidatorsAfter(validators, call')
    /\ UNCHANGED <<accounts, chain>>

\* the signer answers signMessage
SignMessageReturns ==
    /\ call.pc = "signMessage"
    /\ \E response \in SignerResponses : call' = AfterSignMessage(call, response)
    /\ validators' = ValidatorsAfter(validators, call')
    /\ UNCHANGED <<accounts, chain>>

\* the chain client answers the read of the session nonces
NoncesReturn ==
    /\ call.pc = "nonces"
    /\ \E response \in NonceResponses : call' = AfterNonces(call, response)
    /\ validators' = ValidatorsAfter(validators, call')
    /\ UNCHANGED <<accounts, chain>>

\* the caller receives the result of the call
Return ==
    /\ call.pc = "done"
    /\ call' = IdleCall
    /\ UNCHANGED <<validators, accounts, chain>>

(***************************************************************************)
(* The session-key validator on its own                                    *)
(***************************************************************************)
InitSK ==
    /\ \E permissions \in PermissionLists, mode \in Modes :
          validators = {SessionKeyValidator(Signer1, SessionKey, permissions, mode)}
    /\ accounts = {}
    /\ chain = {}
    /\ call = IdleCall

NextSK ==
    \/ ValidatorSignUserOperation
    \/ ValidatorGetDummySignature
    \/ SignMessageReturns
    \/ NoncesReturn
    \/ Return

SpecSK == InitSK /\ [][NextSK]_vars

(***************************************************************************)
(* Kernel account: construction and operations                             *)
(***************************************************************************)
PluginValidatorAddr == Hx(Rep("8", 40))

\* the validators that accounts are built from
AccountValidators ==
    {EcdsaValidator(Signer1),
     SessionKeyValidator(Signer1, SessionKey, <<P3>>, ModeEnable),
     PluginValidator(Signer1, PluginValidatorAddr)}

CreateParams ==
    [defaultValidator : AccountValidators,
     plugin : {None} \cup {Some(v) : v \in AccountValidators \ {PluginValidator(Signer1, PluginValidatorAddr)}},
     index : {0, 1},
     deployedAccountAddress : {None, Some(DeployedAddr)}]

\* mutant of addressIsSupplied: the address is always derived
addressIsNeverSupplied(params) == FALSE

\* deployedAccountAddress ?? getAccountAddress(...): the right-hand side is
\* evaluated only when no deployed address is given
addressIsSupplied(params) == params.deployedAccountAddress # None

\* createKernelAccount up to its first await
CreateKernelAccount ==
    /\ call.pc = "idle"
    /\ Cardinality(accounts) < MaxAccounts
    /\ \E params \in CreateParams :
          LET c == [IdleCall EXCEPT !.op = "createKernelAccount", !.args = Some(params)]
          IN  IF addressIsSupplied(params)
              THEN LET a == KernelSmartAccount(params, params.deployedAccountAddress[1], None)
                   IN  /\ call' = Succeed(c, a)
                       /\ accounts' = accounts \cup {a}
              ELSE /\ call' = [c EXCEPT !.pc = "getEnableData"]
                   /\ UNCHANGED accounts
    /\ UNCHANGED <<validators, chain>>

\* mutant of GetEnableData: the session-key validator returns enable data
\* without an account address
GetEnableDataWithoutAddressCheck(defaultValidator) ==
    CASE defaultValidator.kind = "ECDSAValidator" ->
           [error |-> "", value |-> defaultValidator.signer.address]
      [] OTHER -> [error |-> "", value |-> Hx(Rep("3", 64))]

\* defaultValidator.getEnableData(), called without an account address: the
\* ECDSA validator returns the address of its signer, the session-key
\* validator throws, another validator returns its enable data
GetEnableData(defaultValidator) ==
    CASE defaultValidator.kind = "ECDSAValidator" ->
           [error |-> "", value |-> defaultValidator.signer.address]
      [] defaultValidator.kind = "SessionKeyValidator" ->
           [error |-> "Kernel account address not provided", value |-> EmptyBytes]
      [] OTHER -> [error |-> "", value |-> Hx(Rep("3", 64))]

\* defaultValidator.getEnableData() settles; the init code is encoded and
\* the sender address is requested
EnableDataReturns ==
    /\ call.pc = "getEnableData"
    /\ LET params == call.args[1]
           enableData == GetEnableData(params.defaultValidator)
       IN  IF enableData.error # ""
           THEN call' = Fail(call, enableData.error)
           ELSE call' = [call EXCEPT
                            !.pc = "getSenderAddress",
                            !.enableData = Some(enableData.value),
                            !.initCode = Some(generateInitCode(params.defaultValidator,
                                                  params.plugin, params.index,
                                                  enableData.value))]
    /\ UNCHANGED <<validators, accounts, chain>>

\* the entry-point oracle answers; the account handle is built
SenderAddressReturns ==
    /\ call.pc = "getSenderAddress"
    /\ \E ok \in BOOLEAN :
          IF ok
          THEN LET a == KernelSmartAccount(call.args[1],
                            getSenderAddress(call.initCode[1], ENTRYPOINT_V0_6),
                            Some(Derivation(call.args[1].defaultValidator,
                                            call.args[1].index, call.enableData[1],
                                            call.initCode[1])))
               IN  /\ call' = Succeed(call, a)
                   /\ accounts' = accounts \cup {a}
          ELSE /\ call' = Fail(call, "getSenderAddress failed")
               /\ UNCHANGED accounts
    /\ UNCHANGED <<validators, chain>>

AccountCallDatas == {Execute(T2), ExecuteBatch(<<T2, T3>>)}

\* the signature field of the user operations given to an account: empty, or
\* the dummy signature put there for gas estimation
SignatureFields == {EmptyBytes, EcdsaDummySignature}

AccountUserOperations(a) ==
    {[UserOperation(a.address, callData) EXCEPT !.signature = signature] :
        callData \in AccountCallDatas, signature \in SignatureFields}

\* mutant of AccountStart: the active validator is called at once, without
\* the approve signature of the default validator
AccountStartWithoutApproval(a, op, userOperation) ==
    LET c == [IdleCall EXCEPT !.op = op, !.account = Some(a), !.args = Some(userOperation)]
    IN  IF op = "signUserOperation"
        THEN StartSignUserOperation(c, currentValidator(a), userOperation, None)
        ELSE StartGetDummySignature(c, currentValidator(a), userOperation, None)

\* the part of account.signUserOperation / account.getDummySignature before
\* the active validator is called
AccountStart(a, op, userOperation) ==
    LET c == [IdleCall EXCEPT !.op = op, !.account = Some(a), !.args = Some(userOperation)]
    IN  IF a.plugin # None
        THEN [c EXCEPT !.pc = "approve", !.approve = "invoked"]
        ELSE IF op = "signUserOperation"
             THEN StartSignUserOperation(c, currentValidator(a), userOperation, None)
             ELSE StartGetDummySignature(c, currentValidator(a), userOperation, None)

\* account.signUserOperation(userOperation)
AccountSignUserOperation ==
    /\ call.pc = "idle"
    /\ \E a \in accounts :
          \E userOperation \in AccountUserOperations(a) :
              call' = AccountStart(a, "signUserOperation", userOperation)
    /\ validators' = ValidatorsAfter(validators, call')
    /\ UNCHANGED <<accounts, chain>>

\* account.getDummySignature(userOperation)
AccountGetDummySignature ==
    /\ call.pc = "idle"
    /\ \E a \in accounts :
          \E userOperation \in AccountUserOperations(a) :
              call' = AccountStart(a, "getDummySignature", userOperation)
    /\ validators' = ValidatorsAfter(validators, call')
    /\ UNCHANGED <<accounts, chain>>

\* defaultValidator.getPluginApproveSignature(accountAddress, plugin) settles:
\* the ECDSA validator has no such method, the session-key validator throws,
\* a validator that implements it returns the approve signature
GetPluginApproveSignature(defaultValidator) ==
    CASE defaultValidator.kind = "ECDSAValidator" ->
           [error |-> "TypeError: getPluginApproveSignature is not a function",
            value |-> None]
      [] defaultValidator.kind = "SessionKeyValidator" ->
           [error |-> "Not implemented", value |-> None]
      [] OTHER -> [error |-> "", value |-> Some(ApproveSignature)]

\* the continuation of account.signUserOperation / account.getDummySignature
\* when the approve signature settles: the active validator is called with it
AfterApprove(c) ==
    LET a == c.account[1]
        approved == GetPluginApproveSignature(a.defaultValidator)
        returned == [c EXCEPT !.approve = "returned", !.approveResult = approved.value]
    IN  IF approved.error # ""
        THEN Fail([c EXCEPT !.approve = "threw"], approved.error)
        ELSE IF c.op = "signUserOperation"
             THEN StartSignUserOperation(returned, currentValidator(a), c.args[1],
                                         approved.value)
             ELSE StartGetDummySignature(returned, currentValidator(a), c.args[1],
                                         approved.value)

ApproveReturns ==
    /\ call.pc = "approve"
    /\ call' = AfterApprove(call)
    /\ validators' = ValidatorsAfter(validators, call')
    /\ UNCHANGED <<accounts, chain>>

\* mutant of signTransaction: an account without a plugin lets its signer sign
signTransactionDelegates(c) ==
    IF c.account[1].plugin = None
    THEN Succeed(c, <<"signed transaction">>)
    ELSE Fail(c, UnsupportedOperation)

\* async signTransaction(_, __) { throw new SignTransactionNotSupportedBySmartAccount() }
signTransaction(c) == Fail(c, UnsupportedOperation)

\* account.signTransaction(_, __)
SignTransaction ==
    /\ call.pc = "idle"
    /\ \E a \in accounts :
          call' = signTransaction([IdleCall EXCEPT !.op = "signTransaction",
                                                   !.account = Some(a)])
    /\ UNCHANGED <<validators, accounts, chain>>

TxRequests ==
    {[isArray |-> FALSE, calls |-> <<tx>>, callType |-> callType] :
        tx \in {T1, T3}, callType \in {None, Some("call"), Some("delegatecall")}}
      \cup {[isArray |-> TRUE, calls |-> <<T1, T3>>, callType |-> None]}

\* account.encodeCallData(_tx)
EncodeCallData ==
    /\ call.pc = "idle"
    /\ \E a \in accounts, tx \in TxRequests :
          call' = Succeed([IdleCall EXCEPT !.op = "encodeCallData", !.account = Some(a),
                                           !.args = Some(tx)],
                          encodeCallData(tx))
    /\ UNCHANGED <<validators, accounts, chain>>

Init ==
    /\ validators = AccountValidators
    /\ accounts = {}
    /\ chain = {}
    /\ call = IdleCall

Next ==
    \/ CreateKernelAccount
    \/ EnableDataReturns
    \/ SenderAddressReturns
    \/ AccountSignUserOperation
    \/ AccountGetDummySignature
    \/ ApproveReturns
    \/ SignMessageReturns
    \/ NoncesReturn
    \/ SignTransaction
    \/ EncodeCallData
    \/ Return

Spec == Init /\ [][Next]_vars

(***************************************************************************)
(* Properties of the kernel account (specification Spec)                   *)
(***************************************************************************)
\* C1: signTransaction on any constructed account, with or without a plugin
\* and whatever the validators, never returns a signature: the call fails
\* with the unsupported-operation error.
C1_SignTransactionUnsupported ==
    call.op = "signTransaction" =>
        /\ call.pc = "done"
        /\ call.outcome = "error"
        /\ call.error = UnsupportedOperation
        /\ call.result = None

\* C1 witness: signTransaction has failed on an account without a plugin,
\* built next to another account
C1_Witness ==
    /\ call.op = "signTransaction"
    /\ call.outcome = "error"
    /\ call.account[1].plugin = None
    /\ Cardinality(accounts) = 2

SameDerivationInputs(d, e) ==
    /\ d.owner = e.owner
    /\ d.index = e.index
    /\ d.factoryAddress = e.factoryAddress
    /\ d.accountLogicAddress = e.accountLogicAddress
    /\ d.validatorAddress = e.validatorAddress
    /\ d.enableData = e.enableData

\* C2: two constructions that derive the address from the same owner, index,
\* factory, implementation, validator address and enable data build the same
\* init code and obtain the same account address.
C2_DerivationDeterministic ==
    \A a, b \in accounts :
        (/\ a.derivation # None
         /\ b.derivation # None
         /\ SameDerivationInputs(a.derivation[1], b.derivation[1]))
        => /\ a.derivation[1].initCode = b.derivation[1].initCode
           /\ a.address = b.address

\* C2 witness: two different accounts (one with a plugin, one without) were
\* derived from the same inputs
C2_Witness ==
    \E a, b \in accounts :
        /\ a # b
        /\ a.derivation # None
        /\ b.derivation # None
        /\ SameDerivationInputs(a.derivation[1], b.derivation[1])
        /\ a.plugin # b.plugin

\* C8: a single call requested with callType "delegatecall" is encoded with
\* an operation flag different from that of a normal call, so it never
\* encodes to the bytes of the same request made as a normal call.
C8_DelegateCallFlagThreaded ==
    (/\ call.op = "encodeCallData"
     /\ ~call.args[1].isArray
     /\ call.args[1].callType = Some("delegatecall"))
    => /\ call.result[1].operation # Some(0)
       /\ call.result[1] # encodeCallData([call.args[1] EXCEPT !.callType = Some("call")])

\* C9: when the account has a plugin, getPluginApproveSignature of the
\* default validator is invoked and has returned before the plugin's
\* signUserOperation starts, and the plugin receives its result; when it has
\* no plugin, getPluginApproveSignature is never invoked and the default
\* validator signs with no approve signature.
C9_ApproveBeforePluginSigns ==
    (call.op = "signUserOperation" /\ call.account # None) =>
        LET a == call.account[1]
        IN  IF a.plugin # None
            THEN /\ call.approve # "none"
                 /\ call.validatorStarted =>
                       /\ call.approve = "returned"
                       /\ call.approveResult # None
                       /\ call.pluginEnableSignature = call.approveResult
                       /\ call.v = a.plugin
            ELSE /\ call.approve = "none"
                 /\ call.approveResult = None
                 /\ call.validatorStarted
                 /\ call.pluginEnableSignature = None
                 /\ call.v = Some(a.defaultValidator)

\* C9 witness: the plugin of an account has started signing with the approve
\* signature the default validator returned
C9_Witness ==
    /\ call.op = "signUserOperation"
    /\ call.account # None
    /\ call.account[1].plugin # None
    /\ call.approve = "returned"
    /\ call.validatorStarted
    /\ call.pluginEnableSignature = Some(ApproveSignature)

\* C10: the ECDSA and the session-key validator can each serve as the default
\* validator of an account that has a plugin: the approve-signature step of
\* account.signUserOperation / getDummySignature returns bytes, it does not
\* fail.
C10_ApproveStepReturnsBytes ==
    (/\ call.op \in {"signUserOperation", "getDummySignature"}
     /\ call.account # None
     /\ call.account[1].plugin # None
     /\ call.account[1].defaultValidator.kind \in {"ECDSAValidator", "SessionKeyValidator"}
     /\ call.pc # "approve")
    => /\ call.approve = "returned"
       /\ call.approveResult # None

(***************************************************************************)
(* Properties of the session-key validator (specification SpecSK)          *)
(***************************************************************************)
\* the validator and the decoded call data of the call in flight
CallValidator == call.v[1]

CallData == call.args[1].callData

\* permission p (as the validator stores it) authorizes the call tx: target,
\* selector, value limit and every parameter rule agree
Authorizes(p, tx) ==
    /\ p.valueLimit >= tx.value
    /\ toLowerCase(p.sig) = toLowerCase(slice(tx.data, 0, 10))
    /\ \/ toLowerCase(p.target) = toLowerCase(tx.to)
       \/ toLowerCase(p.target) = zeroAddress
    /\ RulesOutcome(p.rules, tx.data) = "pass"

Authorized(permissions, tx) ==
    \E i \in DOMAIN permissions : Authorizes(permissions[i], tx)

\* getEncodedPermissionProofData has run in the call in flight
ProofEvaluated ==
    /\ call.pc = "done"
    /\ call.v # None
    /\ call.v[1].kind = "SessionKeyValidator"
    /\ call.outcome = "ok" \/ call.error = NoMatchingPermission

\* C3: for an executeBatch call against a non-empty permission set in which
\* some call has no authorizing permission, the matcher returns no match for
\* the whole batch, the call ends in an error and no signature is returned;
\* and a signature returned for a batch carries one authorizing permission
\* per call of the batch.
C3_BatchAllOrNothing ==
    (/\ call.validatorStarted
     /\ CallData.functionName = "executeBatch"
     /\ CallValidator.permissions # <<>>)
    => /\ (\E i \in DOMAIN CallData.calls :
              ~Authorized(CallValidator.permissions, CallData.calls[i]))
          => /\ call.matching = Undefined
             /\ call.result = None
             /\ call.pc = "done" => call.outcome = "error"
       /\ call.outcome = "ok"
          => /\ call.matching.kind = "array"
             /\ Len(call.matching.perms) = Len(CallData.calls)
             /\ \A i \in DOMAIN CallData.calls :
                    Authorizes(call.matching.perms[i], CallData.calls[i])

\* C3 witness: a batch of two calls, the first authorized and the second
\* not, was refused as a whole
C3_Witness ==
    /\ call.pc = "done"
    /\ call.validatorStarted
    /\ call.op = "signUserOperation"
    /\ CallData.functionName = "executeBatch"
    /\ Len(CallData.calls) = 2
    /\ Authorized(CallValidator.permissions, CallData.calls[1])
    /\ ~Authorized(CallValidator.permissions, CallData.calls[2])
    /\ call.error = NoMatchingPermission

\* C4: a session-key validator constructed with zero permissions never fails
\* with NoMatchingPermission, whatever the call data, and the proof segment
\* at the end of every signature it returns is empty bytes.
C4_ZeroPermissions ==
    (call.validatorStarted /\ CallValidator.permissions = <<>>)
    => /\ call.error # NoMatchingPermission
       /\ call.proof = EmptyBytes
       /\ call.outcome = "ok"
          => call.result[1][Len(call.result[1])] = EmptyBytes

\* C4 witness: a validator without permissions has signed a user operation
\* whose call data is not a call of execute or executeBatch
C4_Witness ==
    /\ call.validatorStarted
    /\ CallValidator.permissions = <<>>
    /\ call.op = "signUserOperation"
    /\ call.outcome = "ok"
    /\ CallData.functionName = "executeDelegateCall"

\* the validator of the call in flight has the single permission
\* P{target, selector} and the call is an execute to that target whose data
\* starts with another selector
OtherSelectorCase ==
    /\ call.validatorStarted
    /\ Len(CallValidator.permissions) = 1
    /\ CallValidator.permissions[1].sig # DefaultSig
    /\ CallData.functionName = "execute"
    /\ toLowerCase(CallValidator.permissions[1].target) = toLowerCase(CallData.calls[1].to)
    /\ toLowerCase(CallValidator.permissions[1].sig)
           # toLowerCase(slice(CallData.calls[1].data, 0, 10))

\* the signer and the chain client answered the requests of the call
EnvironmentAnswered ==
    call.error \notin {"signMessage failed", "readContract failed"}

\* C5 as stated: in the other-selector case signUserOperation and
\* getDummySignature end with NoMatchingPermission (even granting that the
\* signer and the chain client answer).
C5_AsStated ==
    (OtherSelectorCase /\ call.pc = "done" /\ EnvironmentAnswered)
    => /\ call.outcome = "error"
       /\ call.error = NoMatchingPermission

\* C5 amended: in the other-selector case no permission matches and neither
\* signUserOperation nor getDummySignature returns a signature; the error is
\* NoMatchingPermission once the signature header is built, and in enable
\* mode without an enable signature it is "Enable signature not set", raised
\* before the permissions are matched.
C5_OtherSelectorNeverSigns ==
    OtherSelectorCase
    => /\ findMatchingPermissions(CallValidator.permissions, CallData) = Undefined
       /\ call.matching = Undefined
       /\ call.result = None
       /\ call.pc = "done"
          => /\ call.outcome = "error"
             /\ EnvironmentAnswered
                => IF CallValidator.mode = ModeEnable /\ call.pluginEnableSignature = None
                   THEN call.error = "Enable signature not set"
                   ELSE call.error = NoMatchingPermission

\* C5 witness: signUserOperation in the other-selector case, in enable mode
\* with an enable signature, was refused with NoMatchingPermission
C5_Witness ==
    /\ OtherSelectorCase
    /\ call.op = "signUserOperation"
    /\ CallValidator.mode = ModeEnable
    /\ call.pluginEnableSignature # None
    /\ call.error = NoMatchingPermission

\* C6: with P1{target=A, valueLimit=10} and P2{target=A, valueLimit=5}, an
\* execute call to A with value 7 is matched with P1.
C6_ValueSevenMatchesP1 ==
    (/\ ProofEvaluated
     /\ CallValidator.permissions = NormalizePermissions(<<P1, P2>>)
     /\ CallData.functionName = "execute"
     /\ toLowerCase(CallData.calls[1].to) = toLowerCase(AddrA)
     /\ CallData.calls[1].value = 7)
    => /\ call.matching.kind = "single"
       /\ call.matching.perms[1] = NormalizePermission(P1, 0)

\* C7: a permission configured without a selector passes the selector filter
\* for an execute call to its target, whatever the data of the call starts
\* with, empty data included.
C7_SelectorWildcard ==
    (call.validatorStarted /\ CallData.functionName = "execute")
    => \A i \in DOMAIN CallValidator.permissions :
           LET permission == CallValidator.permissions[i]
           IN  (/\ permission.sig = DefaultSig
                /\ toLowerCase(permission.target) = toLowerCase(CallData.calls[1].to))
               => filterBySignature(<<permission>>,
                                    toLowerCase(slice(CallData.calls[1].data, 0, 10)))
                      = <<permission>>

\* C11: the enable data the ECDSA validator returns is 32 bytes long: the
\* address of its signer left-padded with zero bytes.
C11_EcdsaEnableDataPadded ==
    (/\ call.op = "createKernelAccount"
     /\ call.enableData # None
     /\ call.args[1].defaultValidator.kind = "ECDSAValidator")
    => /\ ByteLength(call.enableData[1]) = 32
       /\ call.enableData[1] = pad(call.args[1].defaultValidator.signer.address, 32)

\* what signUserOperation returns once started as c, when the signer answers
\* response and the chain client answers nonces
SignOutcome(c, response, nonces) ==
    LET signed == AfterSignMessage(c, response)
        settled == IF signed.pc = "nonces" THEN AfterNonces(signed, nonces) ELSE signed
    IN  <<settled.outcome, settled.error, settled.result>>

\* C12: the ECDSA and the session-key validator hash the user operation with
\* its signature field replaced by empty bytes: the operation of the call in
\* flight and the same operation with any other signature field give the
\* same hash and, for the same answers of the signer and of the chain client,
\* the same result; the operation the caller passed is kept as it is.
C12_SignedHashIgnoresSignature ==
    (/\ call.op = "signUserOperation"
     /\ call.pc = "signMessage")
    => /\ call.userOpHash
            = Some(getUserOperationHash([call.args[1] EXCEPT !.signature = EmptyBytes],
                                        call.v[1].entryPoint, ChainId))
       /\ \A signature \in SignatureFields :
              LET other == [call.args[1] EXCEPT !.signature = signature]
                  started == StartSignUserOperation(IdleCall, call.v[1], other,
                                                    call.pluginEnableSignature)
              IN  /\ started.userOpHash = call.userOpHash
                  /\ started.args = Some(other)
                  /\ \A response \in SignerResponses, nonces \in NonceResponses :
                         SignOutcome(started, response, nonces)
                             = SignOutcome(call, response, nonces)

\* C12 witness: the session-key validator signed an operation whose signature
\* field was not empty
C12_Witness ==
    /\ call.op = "signUserOperation"
    /\ call.outcome = "ok"
    /\ call.v[1].kind = "SessionKeyValidator"
    /\ call.args[1].signature # EmptyBytes
    /\ call.userOpHash # None

(***************************************************************************)
(* fixSignedData on its own                                                *)
(***************************************************************************)
\* r and s of the signatures given to fixSignedData, 32 bytes each
SignatureWords ==
    {Rep("1", 64), Rep("2", 64), <<"A", "b">> \o Rep("0", 61) \o <<"F">>}

\* the recovery bytes: recovery ids 0 and 1, 27 and 28 in both cases of the
\* hex digits, and 37
RecoveryBytes ==
    {<<"0", "0">>, <<"0", "1">>, <<"1", "b">>, <<"1", "c">>, <<"1", "B">>, <<"1", "C">>,
     <<"2", "5">>}

\* 65-byte signatures, with and without the 0x prefix
WellFormedSignatures ==
    {r \o s \o v : r \in SignatureWords, s \in SignatureWords, v \in RecoveryBytes}
      \cup {Hx(r \o s \o v) : r \in SignatureWords, s \in SignatureWords, v \in RecoveryBytes}

\* input that is no signature: not hex, or hex of another length
MalformedSignedData ==
    {<<"z", "z">>, Hx(<<"z", "z">>), Hx(<<"0", "x", "1", "2">>), <<"x">>,
     Hx(Rep("1", 128) \o <<"1", "g">>), Rep("1", 129) \o <<"g">>,
     EmptyBytes, <<>>, Hx(<<"1", "2">>), <<"1", "2">>, Hx(Rep("1", 128))}

SignedDataInputs == WellFormedSignatures \cup MalformedSignedData

\* fixSignedData(sig) is called and settles
FixSignedData ==
    /\ call.pc = "idle"
    /\ \E sig \in SignedDataInputs :
          LET fixed == fixSignedData(sig)
              c == [IdleCall EXCEPT !.op = "fixSignedData", !.args = Some(sig)]
          IN  call' = IF fixed.error # "" THEN Fail(c, fixed.error)
                      ELSE Succeed(c, fixed.value)
    /\ UNCHANGED <<validators, accounts, chain>>

InitFix ==
    /\ validators = {}
    /\ accounts = {}
    /\ chain = {}
    /\ call = IdleCall

NextFix ==
    \/ FixSignedData
    \/ Return

SpecFix == InitFix /\ [][NextFix]_vars

\* the hex digits of a signature given with or without the 0x prefix
SignatureDigits(sig) == IF isHex(sig) THEN slice(sig, 2, Len(sig)) ELSE sig

\* sig is a 65-byte signature whose recovery byte has the value v
WellFormedWithV(sig, v) ==
    /\ Len(SignatureDigits(sig)) = 130
    /\ \A i \in 1..130 : SignatureDigits(sig)[i] \in HexChars
    /\ hexToBigInt(slice(SignatureDigits(sig), 128, 130)) = v

\* C13: for a well-formed signature fixSignedData returns r and s unchanged
\* and the recovery byte 27 for 0 or 27, 28 for 1 or 28; a signature with
\* v = 27 or 28 comes back as the same bytes, and fixing the result again
\* changes nothing.
C13_FixSignedDataNormalizesV ==
    (call.op = "fixSignedData" /\ \E v \in {0, 1, 27, 28} : WellFormedWithV(call.args[1], v))
    => LET sig == call.args[1]
           digits == SignatureDigits(sig)
           v == hexToBigInt(slice(digits, 128, 130))
       IN  /\ call.outcome = "ok"
           /\ Len(call.result[1]) = 132
           /\ slice(call.result[1], 2, 130) = toLowerCase(slice(digits, 0, 128))
           /\ hexToBigInt(slice(call.result[1], 130, 132)) = IF v < 2 THEN v + 27 ELSE v
           /\ v >= 27 => call.result[1] = Hx(toLowerCase(digits))
           /\ fixSignedData(call.result[1]) = [error |-> "", value |-> call.result[1]]

\* C13 witness: a signature with recovery id 1 was normalized to v = 28
C13_Witness ==
    /\ call.op = "fixSignedData"
    /\ WellFormedWithV(call.args[1], 1)
    /\ call.outcome = "ok"
    /\ slice(call.result[1], 130, 132) = <<"1", "c">>

ConstructedAccount(params) ==
    IF params.deployedAccountAddress # None
    THEN Some(KernelSmartAccount(params, params.deployedAccountAddress[1], None))
    ELSE IF GetEnableData(params.defaultValidator).error # "" THEN None
    ELSE LET enableData == GetEnableData(params.defaultValidator).value
             initCode == generateInitCode(params.defaultValidator, params.plugin,
                                          params.index, enableData)
         IN  Some(KernelSmartAccount(params, getSenderAddress(initCode, ENTRYPOINT_V0_6),
                                     Some(Derivation(params.defaultValidator, params.index,
                                                     enableData, initCode))))

\* the bytecode of a deployed account
AccountBytecode == Hx(<<"6", "0", "8", "0">>)

\* getBytecode found nothing
UndefinedBytecode == <<"undefined">>

\* what getBytecode(client, {address}) can answer in the current chain state
getBytecode(address) ==
    IF address \in chain THEN {AccountBytecode} ELSE {UndefinedBytecode, EmptyBytes}

\* mutant of hasBytecode: any answer other than undefined counts as deployed
hasBytecodeDefined(contractCode) == contractCode # UndefinedBytecode

\* (contractCode?.length ?? 0) > 2
hasBytecode(contractCode) ==
    (IF contractCode = UndefinedBytecode THEN 0 ELSE Len(contractCode)) > 2

\* the account contract is deployed at the address of an account
DeployAccount ==
    /\ \E a \in accounts :
          /\ a.address \notin chain
          /\ chain' = chain \cup {a.address}
    /\ UNCHANGED <<validators, accounts, call>>

\* account.getInitCode() up to the await of getBytecode
GetInitCode ==
    /\ call.pc = "idle"
    /\ \E a \in accounts :
          call' = [IdleCall EXCEPT !.op = "getInitCode", !.account = Some(a),
                                   !.pc = "getBytecode",
                                   !.deployedAtStart = (a.address \in chain)]
    /\ UNCHANGED <<validators, accounts, chain>>

\* getBytecode settles: "0x" is returned when the address holds bytecode,
\* otherwise generateInitCode() is called
BytecodeReturns ==
    /\ call.pc = "getBytecode"
    /\ \E ok \in BOOLEAN :
          IF ~ok THEN call' = Fail(call, "getBytecode failed")
          ELSE \E contractCode \in getBytecode(call.account[1].address) :
                  LET c == [call EXCEPT !.bytecode = Some(contractCode)]
                  IN  call' = IF hasBytecode(contractCode) THEN Succeed(c, EmptyBytes)
                              ELSE [c EXCEPT !.pc = "generateInitCode"]
    /\ UNCHANGED <<validators, accounts, chain>>

\* generateInitCode() of getInitCode settles: getAccountInitCode awaits the
\* enable data of the default validator
InitCodeReturns ==
    /\ call.pc = "generateInitCode"
    /\ LET a == call.account[1]
           enableData == GetEnableData(a.defaultValidator)
       IN  call' = IF enableData.error # "" THEN Fail(call, enableData.error)
                   ELSE Succeed([call EXCEPT !.enableData = Some(enableData.value)],
                                generateInitCode(a.defaultValidator, a.plugin, a.index,
                                                 enableData.value))
    /\ UNCHANGED <<validators, accounts, chain>>

InitChain ==
    /\ validators = AccountValidators
    /\ \E params \in CreateParams :
          /\ ConstructedAccount(params) # None
          /\ accounts = {ConstructedAccount(params)[1]}
          /\ chain \in {{}, {ConstructedAccount(params)[1].address}}
    /\ call = IdleCall

NextChain ==
    \/ DeployAccount
    \/ GetInitCode
    \/ BytecodeReturns
    \/ InitCodeReturns
    \/ Return

SpecChain == InitChain /\ [][NextChain]_vars

\* the init code of account a for the enable data of its default validator:
\* the factory address followed by createAccount(logic, initialize(validator,
\* enableData), index)
FullInitCode(a, enableData) ==
    <<"concatHex", FACTORY_ADDRESS,
      <<"abi", "createAccount", toLowerCase(ACCOUNT_V2_3_LOGIC),
        <<"abi", "initialize", toLowerCase(a.defaultValidator.address),
          toLowerCase(enableData)>>,
        a.index>>>>

\* a getInitCode call has settled and its bytecode probe was answered
InitCodeSettled ==
    /\ call.op = "getInitCode"
    /\ call.pc = "done"
    /\ call.bytecode # None

\* C15 as stated: getInitCode returns empty bytes if the probe found
\* non-trivial bytecode and otherwise returns the full init code.
C15_AsStated ==
    InitCodeSettled
    => IF Len(call.bytecode[1]) > 2 /\ call.bytecode[1] # UndefinedBytecode
       THEN call.result = Some(EmptyBytes)
       ELSE /\ call.outcome = "ok"
            /\ call.result = Some(FullInitCode(call.account[1], call.enableData[1]))

\* C15 amended: getInitCode returns empty bytes if the probe found
\* non-trivial bytecode; otherwise it returns the full init code when the
\* default validator gives its enable data without an account address, and
\* fails with the error of getEnableData when the default validator is a
\* session-key validator.  Bytecode never disappears, so a call started after
\* the deployment returns empty bytes, and empty bytes are returned only for
\* a deployed account.
C15_InitCodeFollowsProbe ==
    /\ [][chain \subseteq chain']_vars
    /\ [](call.op = "getInitCode" =>
            /\ (call.deployedAtStart /\ call.pc = "done" /\ call.error # "getBytecode failed")
               => call.result = Some(EmptyBytes)
            /\ call.result = Some(EmptyBytes) => call.account[1].address \in chain
            /\ InitCodeSettled
               => IF Len(call.bytecode[1]) > 2 /\ call.bytecode[1] # UndefinedBytecode
                  THEN call.result = Some(EmptyBytes)
                  ELSE IF call.account[1].defaultValidator.kind = "SessionKeyValidator"
                  THEN /\ call.outcome = "error"
                       /\ call.error = "Kernel account address not provided"
                       /\ call.result = None
                  ELSE /\ call.outcome = "ok"
                       /\ call.result
                            = Some(FullInitCode(call.account[1], call.enableData[1])))

\* C15 witness: the account was deployed while getInitCode was not running and
\* a later getInitCode has returned empty bytes; its address was derived
C15_Witness ==
    /\ InitCodeSettled
    /\ call.deployedAtStart
    /\ call.account[1].derivation # None
    /\ call.result = Some(EmptyBytes)

\* a createKernelAccount call that was given a deployedAccountAddress
CreatedWithAddress(c) ==
    /\ c.op = "createKernelAccount"
    /\ c.args[1].deployedAccountAddress # None

\* C16: when deployedAccountAddress is supplied, createKernelAccount ends in
\* its first step with an account whose address is the supplied one; the call
\* never waits for getEnableData of the default validator nor for the
\* sender-address read, and holds no enable data and no init code.
C16_DeployedAddressSkipsDerivation ==
    /\ [][(call.pc = "idle" /\ CreatedWithAddress(call'))
          => /\ call'.pc = "done"
             /\ call'.outcome = "ok"
             /\ call'.result[1].address = call'.args[1].deployedAccountAddress[1]
             /\ call'.result[1].derivation = None
             /\ accounts' = accounts \cup {call'.result[1]}]_vars
    /\ [](CreatedWithAddress(call)
          => /\ call.pc \notin {"getEnableData", "getSenderAddress"}
             /\ call.enableData = None
             /\ call.initCode = None)

\* C16 witness: an account was built at the supplied address over a
\* session-key default validator, whose getEnableData throws without an
\* account address
C16_Witness ==
    /\ CreatedWithAddress(call)
    /\ call.pc = "done"
    /\ call.outcome = "ok"
    /\ call.args[1].defaultValidator.kind = "SessionKeyValidator"
    /\ call.result[1].address = DeployedAddr
    /\ call.result[1] \in accounts

\* Merkle proof verification: the leaf is hashed with each sibling of the
\* proof in turn, pairs sorted, and the result is compared with the root
RECURSIVE verify(_, _, _)
verify(proof, node, root) ==
    IF proof = <<>> THEN node = root
    ELSE verify(Tail(proof), HashPair(node, Head(proof)), root)

\* every permission tuple embedded in the proof data comes with a proof
\* that verifies against root
EmbeddedProofsVerify(kind, data, root) ==
    IF kind = "array"
    THEN \A i \in DOMAIN data[3] :
            verify(data[5][i], keccak256(<<"abi", "tuple", data[3][i]>>), root)
    ELSE verify(data[5], keccak256(<<"abi", "tuple", data[3]>>), root)

\* a session-key signature that embeds permissions has been returned
SignatureEmbedsPermissions ==
    /\ call.pc = "done"
    /\ call.outcome = "ok"
    /\ call.v # None
    /\ call.v[1].kind = "SessionKeyValidator"
    /\ call.proof # EmptyBytes

\* C17: every permission embedded in a returned session-key signature has a
\* proof that verifies against the Merkle root of the validator; the root is
\* the one obtained by rebuilding the tree from the permissions, and for a
\* single permission it is the hash of the leaf paired with itself.
C17_EmbeddedProofsVerify ==
    SignatureEmbedsPermissions
    => LET v == call.v[1]
           root == getHexRoot(v.merkleTree)
       IN  /\ root = getHexRoot(MerkleTree(v.permissions))
           /\ Len(v.permissions) = 1
              => LET leaf == keccak256(encodePermissionData(v.permissions[1]))
                 IN  root = HashPair(leaf, leaf)
           /\ EmbeddedProofsVerify(call.matching.kind, call.proof, root)

\* C17 witness: a signature over the single permission of a validator
C17_Witness ==
    /\ SignatureEmbedsPermissions
    /\ call.op = "signUserOperation"
    /\ Len(call.v[1].permissions) = 1
    /\ call.matching.kind = "single"
    /\ call.proof[5] # <<>>

\* account.getDummySignature(userOperation) of account a run to its end, the
\* chain client answering nonces
DummySignatureCall(a, userOperation, nonces) ==
    LET started == AccountStart(a, "getDummySignature", userOperation)
        approved == IF started.pc = "approve" THEN AfterApprove(started) ELSE started
    IN  IF approved.pc = "nonces" THEN AfterNonces(approved, nonces) ELSE approved

\* two concatenations have the same byte length: their hex pieces add up to
\* the same number of bytes and their ABI-encoded pieces are the same
SameByteLength(real, dummy) ==
    LET hexOf(pieces) == SelectSeq(pieces, LAMBDA piece : piece[1] # "abi")
        abiOf(pieces) == SelectSeq(pieces, LAMBDA piece : piece[1] = "abi")
    IN  /\ SumByteLength(hexOf(real)) = SumByteLength(hexOf(dummy))
        /\ abiOf(real) = abiOf(dummy)

\* account.signUserOperation has returned a signature
AccountSigned ==
    /\ call.op = "signUserOperation"
    /\ call.account # None
    /\ call.pc = "done"
    /\ call.outcome = "ok"

\* C18: when account.signUserOperation has succeeded on a user operation,
\* account.getDummySignature on the same operation takes the same path (the
\* approve signature of the default validator when a plugin is active, then
\* the active validator with that signature), succeeds with a placeholder of
\* the byte length of the real signature, and never asks the signer to sign.
C18_DummySignatureMirrorsSigning ==
    AccountSigned
    => \A nonces \in {n \in NonceResponses : n.ok} :
          LET dummy == DummySignatureCall(call.account[1], call.args[1], nonces)
          IN  /\ dummy.pc = "done"
              /\ dummy.outcome = "ok"
              /\ dummy.approve = call.approve
              /\ dummy.approveResult = call.approveResult
              /\ dummy.v = call.v
              /\ dummy.pluginEnableSignature = call.pluginEnableSignature
              /\ dummy.userOpHash = None
              /\ dummy.signed = None
              /\ call.v[1].kind # "KernelPlugin"
                 => SameByteLength(call.result[1], dummy.result[1])

\* C18 witness: an account whose plugin is a session-key validator has signed
\* after the approve signature was returned
C18_Witness ==
    /\ AccountSigned
    /\ call.approve = "returned"
    /\ call.v[1].kind = "SessionKeyValidator"
    /\ call.proof # EmptyBytes
    /\ DummySignatureCall(call.account[1], call.args[1],
                          [ok |-> TRUE, lastNonce |-> 0]).result # call.result

(***************************************************************************)
(* The permission matcher on its own                                       *)
(***************************************************************************)
\* findMatchingPermissions(callData) of a session-key validator
FindMatchingPermissions ==
    /\ call.pc = "idle"
    /\ \E v \in validators, callData \in CallDatas :
          call' = [IdleCall EXCEPT
                      !.op = "findMatchingPermissions",
                      !.v = Some(v),
                      !.args = Some(UserOperation(AccountAddr, callData)),
                      !.matching = findMatchingPermissions(v.permissions, callData),
                      !.pc = "done", !.outcome = "ok"]
    /\ UNCHANGED <<validators, accounts, chain>>

\* permissions for the matcher: another target, and two permissions for the
\* call T3 of which the one with the higher value limit has a rule that fails
P5 == PermissionInput(AddrB, Some(SelA), Some(3), None, None, None)

P6 == PermissionInput(AddrA, Some(SelB), Some(9),
                      Some(<<[offset |-> 0, condition |-> EQUAL, param |-> Hx(Word("2"))]>>),
                      None, None)

P7 == PermissionInput(AddrA, Some(SelB), Some(5), None, None, None)

MatchPermissionLists == SeqsUpTo(PermissionPool \cup {P5, P6, P7}, MaxPerms)

\* signerToSessionKeyValidator(client, {signer, validatorData}): the
\* permissions are normalised and the Merkle tree is built
SignerToSessionKeyValidator ==
    /\ call.pc = "idle"
    /\ validators = {}
    /\ \E permissions \in MatchPermissionLists :
          LET v == SessionKeyValidator(Signer1, SessionKey, permissions, ModeSudo)
          IN  /\ call' = [IdleCall EXCEPT
                             !.op = "signerToSessionKeyValidator",
                             !.args = Some(permissions),
                             !.result = Some(v),
                             !.pc = "done", !.outcome = "ok"]
              /\ validators' = {v}
    /\ UNCHANGED <<accounts, chain>>

InitMatch ==
    /\ validators = {}
    /\ accounts = {}
    /\ chain = {}
    /\ call = IdleCall

NextMatch ==
    \/ SignerToSessionKeyValidator
    \/ FindMatchingPermissions
    \/ Return

SpecMatch == InitMatch /\ [][NextMatch]_vars

\* the matcher has run on the call data of the call in flight
MatcherRan ==
    /\ call.op = "findMatchingPermissions"
    /\ call.pc = "done"

\* the target of permission p is the target of the call tx, whatever the
\* letter case, or the zero address
TargetAgrees(p, tx) ==
    \/ toLowerCase(p.target) = toLowerCase(tx.to)
    \/ p.target = zeroAddress

\* C19: the target filter keeps exactly the permissions whose target equals
\* the target of the call case-insensitively or is the zero address, and a
\* matched permission always has such a target.
C19_TargetFilter ==
    MatcherRan
    => /\ \A i \in DOMAIN CallData.calls :
             LET tx == CallData.calls[i]
                 kept == targetFilter(CallValidator.permissions, toLowerCase(tx.to))
             IN  \A j \in DOMAIN CallValidator.permissions :
                    LET p == CallValidator.permissions[j]
                    IN  (\E k \in DOMAIN kept : kept[k] = p) <=> TargetAgrees(p, tx)
       /\ \A i \in DOMAIN call.matching.perms :
             TargetAgrees(call.matching.perms[i], CallData.calls[i])

\* C19 witness: a permission was matched whose target differs from the target
\* of the call in letter case only, while another permission of the list has
\* another target
C19_Witness ==
    /\ MatcherRan
    /\ call.matching.kind = "single"
    /\ call.matching.perms[1].target # CallData.calls[1].to
    /\ call.matching.perms[1].target # zeroAddress
    /\ \E j \in DOMAIN CallValidator.permissions :
          ~TargetAgrees(CallValidator.permissions[j], CallData.calls[1])

\* permission q is the first, in descending order of value limit and then in
\* the order of the list, of the permissions that authorize the call tx
FirstAuthorizing(permissions, q, tx) ==
    /\ \E j \in DOMAIN permissions : permissions[j] = q
    /\ Authorizes(q, tx)
    /\ \A j \in DOMAIN permissions :
          Authorizes(permissions[j], tx)
          => \/ permissions[j].valueLimit < q.valueLimit
             \/ /\ permissions[j].valueLimit = q.valueLimit
                /\ permissions[j].index >= q.index

\* C20: the permission matched for a call is the first, in descending order
\* of value limit, of the permissions that pass the target, selector and value
\* filters and all of whose rules pass: no permission that passes has a higher
\* value limit, and a call has a match exactly when some permission passes
\* (for a batch, when every call has one).
C20_SelectionRule ==
    (MatcherRan /\ CallData.functionName \in {"execute", "executeBatch"})
    => LET permissions == CallValidator.permissions
           calls == CallData.calls
       IN  IF call.matching.kind = "undefined"
           THEN \E i \in DOMAIN calls : ~Authorized(permissions, calls[i])
           ELSE /\ \A i \in DOMAIN calls : Authorized(permissions, calls[i])
                /\ \A i \in DOMAIN call.matching.perms :
                      FirstAuthorizing(permissions, call.matching.perms[i], calls[i])
                /\ call.matching.kind = "array"
                   => Len(call.matching.perms) = Len(calls)

\* C20 witness: the matched permission comes later in the list than another
\* permission that authorizes the call with a lower value limit, and a
\* permission with a higher value limit fails on a rule
C20_Witness ==
    /\ MatcherRan
    /\ call.matching.kind = "single"
    /\ \E j \in DOMAIN CallValidator.permissions :
          LET p == CallValidator.permissions[j]
          IN  /\ Authorizes(p, CallData.calls[1])
              /\ p.valueLimit < call.matching.perms[1].valueLimit
              /\ p.index < call.matching.perms[1].index

(***************************************************************************)
(* The evaluation of one ParamRule on its own                              *)
(***************************************************************************)
\* 32-byte words: small values in both letter cases, a value in the most
\* significant digit, zero
RuleWords ==
    {Word("1"), Word("2"), Rep("0", 64),
     Rep("0", 62) \o <<"A", "b">>, Rep("0", 62) \o <<"a", "B">>,
     Rep("0", 62) \o <<"9", "f">>, <<"f">> \o Rep("0", 63)}

\* rule parameters: the words, and values given in fewer than 32 bytes
RuleParams ==
    {Hx(w) : w \in RuleWords}
      \cup {Hx(<<"0", "1">>), Hx(<<"A", "b">>), Hx(<<"1">>), Hx(<<"0", "0", "9", "F">>)}

ParamOperators ==
    {EQUAL, GREATER_THAN, LESS_THAN, GREATER_THAN_OR_EQUAL, LESS_THAN_OR_EQUAL, NOT_EQUAL}

\* offsets of the first word, the second word, and the end of two words
ParamRules ==
    [offset : {0, 32, 64}, condition : ParamOperators, param : RuleParams]

\* call data holding less than two words after the selector: nothing at all,
\* the selector alone, one byte, one word and one byte, one word and all but
\* the last byte of a second
ShortCallDatas ==
    {Hx(<<>>), SelA, SelA \o <<"a", "B">>, SelA \o Word("1") \o <<"0", "2">>,
     SelA \o Word("2") \o Rep("0", 61) \o <<"1">>}

\* call data holding two full words after the selector, and shorter ones
RuleCallDatas ==
    {SelA \o w1 \o w2 : w1 \in RuleWords, w2 \in {Word("2"), Rep("0", 62) \o <<"a", "B">>}}
      \cup ShortCallDatas

\* the loop body of findPermissionByRule for one rule and one call data
EvaluateRule ==
    /\ call.pc = "idle"
    /\ \E rule \in ParamRules, data \in RuleCallDatas :
          call' = [IdleCall EXCEPT
                      !.op = "findPermissionByRule",
                      !.args = Some([rule |-> rule, data |-> data]),
                      !.result = Some(RuleOutcome(rule, data)),
                      !.pc = "done", !.outcome = "ok"]
    /\ UNCHANGED <<validators, accounts, chain>>

InitRule ==
    /\ validators = {}
    /\ accounts = {}
    /\ chain = {}
    /\ call = IdleCall

NextRule ==
    \/ EvaluateRule
    \/ Return

SpecRule == InitRule /\ [][NextRule]_vars

\* the digits of a hex string of at most 32 bytes, as 64 digit values, most
\* significant first
Uint256Digits(hex) ==
    LET digits == slice(hex, 2, Len(hex))
    IN  [i \in 1..64 |->
            IF i <= 64 - Len(digits) THEN 0
            ELSE hexDigitValue(digits[i - (64 - Len(digits))])]

\* a < b for two unsigned 256-bit integers given by their digits
Uint256Less(a, b) ==
    \E i \in 1..64 :
        /\ a[i] < b[i]
        /\ \A j \in 1..(i - 1) : a[j] = b[j]

\* the operator of a rule on two unsigned 256-bit integers
Uint256Satisfies(word, param, condition) ==
    CASE condition = EQUAL -> word = param
      [] condition = GREATER_THAN -> Uint256Less(param, word)
      [] condition = LESS_THAN -> Uint256Less(word, param)
      [] condition = GREATER_THAN_OR_EQUAL -> ~Uint256Less(word, param)
      [] condition = LESS_THAN_OR_EQUAL -> ~Uint256Less(param, word)
      [] condition = NOT_EQUAL -> word # param

\* one rule has been evaluated
RuleEvaluated ==
    /\ call.op = "findPermissionByRule"
    /\ call.pc = "done"

\* the word of the call data at the offset of the rule
RuleWordAt(rule, data) ==
    Hx(SubSeq(data, 11 + 2 * rule.offset, Min(Len(data), 74 + 2 * rule.offset)))

\* C21: for a call data holding a full 32-byte word at the offset of the
\* rule, the rule passes exactly when the word and the parameter of the rule,
\* read as big-endian unsigned integers, satisfy the operator of the rule,
\* whatever the letter case of the hex digits and also for a parameter given
\* in fewer than 32 bytes.
C21_RuleIsUnsignedComparison ==
    (RuleEvaluated /\ Len(call.args[1].data) >= 74 + 2 * call.args[1].rule.offset)
    => LET rule == call.args[1].rule
           data == call.args[1].data
       IN  /\ call.result[1] \in {"pass", "fail"}
           /\ call.result[1] = "pass"
              <=> Uint256Satisfies(Uint256Digits(RuleWordAt(rule, data)),
                                   Uint256Digits(rule.param), rule.condition)

\* C21 witness: a rule passed on a word and a shorter parameter that are the
\* same number written in different letter case
C21_Witness ==
    /\ RuleEvaluated
    /\ call.args[1].rule.condition = GREATER_THAN_OR_EQUAL
    /\ call.args[1].rule.param = Hx(<<"A", "b">>)
    /\ RuleWordAt(call.args[1].rule, call.args[1].data) = Hx(Rep("0", 62) \o <<"a", "B">>)
    /\ call.result = Some("pass")

\* the permissions with their operation tags replaced by tags
Retag(permissions, tags) ==
    [i \in DOMAIN permissions |-> [permissions[i] EXCEPT !.operation = tags[i]]]

\* two results of the matcher are the same but for the operation tags of the
\* permissions they hold
SameUpToOperation(m, n) ==
    /\ m.kind = n.kind
    /\ Len(m.perms) = Len(n.perms)
    /\ Retag(m.perms, [i \in DOMAIN m.perms |-> OperationCall])
         = Retag(n.perms, [i \in DOMAIN n.perms |-> OperationCall])

\* C22: the operation tags of the permissions never change the outcome of the
\* matcher: the permission list of the validator with its tags replaced in
\* any way gives, for the same call data, the same match (the same
\* permissions but for their tags) or no match.
C22_OperationTagIrrelevant ==
    MatcherRan
    => \A tags \in [DOMAIN CallValidator.permissions
                      -> {OperationCall, OperationDelegateCall}] :
          SameUpToOperation(
              findMatchingPermissions(Retag(CallValidator.permissions, tags), CallData),
              call.matching)

\* C22 witness: a permission tagged DelegateCall was matched
C22_Witness ==
    /\ MatcherRan
    /\ call.matching.kind = "single"
    /\ call.matching.perms[1].operation = OperationDelegateCall

\* a session-key validator has been constructed from the permissions the
\* caller passed
ValidatorConstructed ==
    /\ call.op = "signerToSessionKeyValidator"
    /\ call.pc = "done"

\* C23: the i-th permission of a constructed session-key validator is the
\* i-th permission the caller passed, with index i counted from 0, also when
\* the caller gave another index; the indexes are pairwise distinct; the
\* Merkle leaf of the permission is the hash of an encoding that holds this
\* index, and another index gives another leaf.
C23_IndexIsPosition ==
    ValidatorConstructed
    => LET given == call.args[1]
           stored == call.result[1].permissions
           leaves == call.result[1].merkleTree[1]
       IN  /\ Len(stored) = Len(given)
           /\ \A i \in DOMAIN stored :
                 /\ stored[i].index = i - 1
                 /\ stored[i].target = given[i].target
                 /\ \A j \in DOMAIN stored : stored[j].index = stored[i].index => j = i
                 /\ leaves[i] = keccak256(encodePermissionData(stored[i]))
                 /\ leaves[i][2][3][1] = i - 1
                 /\ \A other \in 0..MaxPerms :
                       other # i - 1
                       => keccak256(encodePermissionData([stored[i] EXCEPT !.index = other]))
                            # leaves[i]

\* C23 witness: the caller gave index 7 on the second permission of two
C23_Witness ==
    /\ ValidatorConstructed
    /\ Len(call.args[1]) = 2
    /\ call.args[1][2].index = Some(7)
    /\ call.result[1].permissions[2].index = 1

\* the call data given to the session-key validator of the call in flight is
\* a call of another function of the account, or cannot be decoded
OtherFunctionCase ==
    /\ call.validatorStarted
    /\ call.v[1].kind = "SessionKeyValidator"
    /\ CallData.functionName \notin {"execute", "executeBatch"}

\* the call failed before the permissions were matched
FailedBeforeMatching ==
    call.error \in {"Enable signature not set", "signMessage failed", "readContract failed"}

AsConstructed(v) ==
    /\ \A i \in DOMAIN v.permissions : v.permissions[i].index = i - 1
    /\ v.merkleTree = MerkleTree(v.permissions)

\* C25: no step of a signUserOperation or getDummySignature call, successful
\* or failing, changes a validator: the set of validators stays what it was,
\* every session-key validator keeps its permissions in the order of
\* construction with the Merkle tree of construction, and the validator a
\* call works on is still the stored one.
C25_SigningLeavesValidatorUnchanged ==
    /\ [][validators' = validators]_vars
    /\ [](/\ \A v \in validators : AsConstructed(v)
          /\ call.v # None => call.v[1] \in validators)

\* C25 witness: a signature was returned by a validator whose permissions are
\* not in descending order of value limit, and the validator is still stored
\* as it was
C25_Witness ==
    /\ call.pc = "done"
    /\ call.outcome = "ok"
    /\ call.op = "signUserOperation"
    /\ call.matching.kind # "undefined"
    /\ SortByValueLimit(call.v[1].permissions) # call.v[1].permissions
    /\ call.v[1] \in validators

(***************************************************************************)
(* Two signing calls in flight.  In this specification call is a pair of   *)
(* slots; a slot holds a call in flight, what was asked of it, and the     *)
(* answers the signer and the chain client gave it.                        *)
(***************************************************************************)
SudoValidator == SessionKeyValidator(Signer1, SessionKey, <<P3, P4>>, ModeSudo)

ParValidators ==
    {EcdsaValidator(Signer1),
     SessionKeyValidator(Signer1, SessionKey, <<P3>>, ModeEnable),
     SudoValidator}

\* an account over the ECDSA validator, and one with the session-key
\* validator as plugin
ParAccounts ==
    {KernelSmartAccount([defaultValidator |-> EcdsaValidator(Signer1), plugin |-> plugin,
                         index |-> 0, deployedAccountAddress |-> Some(DeployedAddr)],
                        DeployedAddr, None) :
        plugin \in {None, Some(SudoValidator)}}

ParCallDatas == {Execute(T2), Execute(T3)}

\* what is asked: an operation of a validator or of an account
ParStarts ==
    [target : {Some(v) : v \in ParValidators}, level : {"validator"},
     op : {"signUserOperation", "getDummySignature"},
     userOperation : {UserOperation(AccountAddr, callData) : callData \in ParCallDatas},
     pluginEnableSignature : EnableSignatures]
      \cup
    [target : {Some(a) : a \in ParAccounts}, level : {"account"},
     op : {"signUserOperation", "getDummySignature"},
     userOperation : {UserOperation(DeployedAddr, callData) : callData \in ParCallDatas},
     pluginEnableSignature : {None}]

IdleSlot == [c |-> IdleCall, start |-> None, signer |-> None, nonces |-> None,
             overlapped |-> FALSE]

\* the validator object v as it is now among the validators vs
Stored(vs, v) == CHOOSE w \in vs : w.kind = v.kind /\ w.mode = v.mode

\* the account a seen with its validator objects as they are now
StoredAccount(vs, a) ==
    [a EXCEPT !.defaultValidator = Stored(vs, a.defaultValidator),
              !.plugin = IF a.plugin = None THEN None ELSE Some(Stored(vs, a.plugin[1]))]

\* the call c seen with its validator and account objects as they are now
Current(vs, c) ==
    [c EXCEPT !.v = IF c.v = None THEN None ELSE Some(Stored(vs, c.v[1])),
              !.account = IF c.account = None THEN None
                          ELSE Some(StoredAccount(vs, c.account[1]))]

\* the operation of start up to its first await
Begin(vs, start) ==
    IF start.level = "account"
    THEN AccountStart(StoredAccount(vs, start.target[1]), start.op, start.userOperation)
    ELSE IF start.op = "signUserOperation"
    THEN StartSignUserOperation(IdleCall, Stored(vs, start.target[1]),
                                start.userOperation, start.pluginEnableSignature)
    ELSE StartGetDummySignature(IdleCall, Stored(vs, start.target[1]),
                                start.userOperation, start.pluginEnableSignature)

InFlight(slot) == slot.c.pc \notin {"idle", "done"}

Other(i) == 3 - i

\* a call starts in slot i
ParStart(i) ==
    /\ call[i].c.pc = "idle"
    /\ \E start \in ParStarts :
          LET c == Begin(validators, start)
              overlaps == InFlight(call[Other(i)])
          IN  /\ call' = [call EXCEPT
                            ![i] = [IdleSlot EXCEPT !.c = c, !.start = Some(start),
                                                    !.overlapped = overlaps],
                            ![Other(i)].overlapped = @ \/ overlaps]
              /\ validators' = ValidatorsAfter(validators, c)
    /\ UNCHANGED <<accounts, chain>>

\* the approve signature of the call in slot i settles
ParApproveReturns(i) ==
    /\ call[i].c.pc = "approve"
    /\ LET c == AfterApprove(Current(validators, call[i].c))
       IN  /\ call' = [call EXCEPT ![i].c = c]
           /\ validators' = ValidatorsAfter(validators, c)
    /\ UNCHANGED <<accounts, chain>>

\* the signer answers the call in slot i
ParSignMessageReturns(i) ==
    /\ call[i].c.pc = "signMessage"
    /\ \E response \in SignerResponses :
          LET c == AfterSignMessage(Current(validators, call[i].c), response)
          IN  /\ call' = [call EXCEPT ![i].c = c, ![i].signer = Some(response)]
              /\ validators' = ValidatorsAfter(validators, c)
    /\ UNCHANGED <<accounts, chain>>

\* the chain client answers the nonce read of the call in slot i
ParNoncesReturn(i) ==
    /\ call[i].c.pc = "nonces"
    /\ \E response \in NonceResponses :
          LET c == AfterNonces(Current(validators, call[i].c), response)
          IN  /\ call' = [call EXCEPT ![i].c = c, ![i].nonces = Some(response)]
              /\ validators' = ValidatorsAfter(validators, c)
    /\ UNCHANGED <<accounts, chain>>

InitPar ==
    /\ validators = ParValidators
    /\ accounts = ParAccounts
    /\ chain = {}
    /\ call = [i \in {1, 2} |-> IdleSlot]

NextPar ==
    \E i \in {1, 2} :
        \/ ParStart(i)
        \/ ParApproveReturns(i)
        \/ ParSignMessageReturns(i)
        \/ ParNoncesReturn(i)

SpecPar == InitPar /\ [][NextPar]_vars

\* the call of start run alone on the validators as constructed, the signer
\* answering signer and the chain client nonces
RunAlone(start, signer, nonces) ==
    LET begun == Begin(ParValidators, start)
        approved == IF begun.pc = "approve" THEN AfterApprove(begun) ELSE begun
        signed == IF approved.pc = "signMessage"
                  THEN AfterSignMessage(approved, signer[1]) ELSE approved
    IN  IF signed.pc = "nonces" THEN AfterNonces(signed, nonces[1]) ELSE signed

\* C26: whatever the interleaving of two signing calls at their awaits, on
\* the same or on different validators and accounts, a call that has ended
\* returned the signature or the error it returns when run alone with the
\* same answers of the signer and of the chain client.
C26_ConcurrentCallsDoNotInterfere ==
    \A i \in {1, 2} :
        call[i].c.pc = "done"
        => LET alone == RunAlone(call[i].start[1], call[i].signer, call[i].nonces)
           IN  /\ alone.pc = "done"
               /\ call[i].c.outcome = alone.outcome
               /\ call[i].c.error = alone.error
               /\ call[i].c.result = alone.result

\* C26 witness: two signUserOperation calls on the same session-key
\* validator, for different call data, overlapped and both returned a
\* signature
C26_Witness ==
    /\ \A i \in {1, 2} :
          /\ call[i].c.pc = "done"
          /\ call[i].c.outcome = "ok"
          /\ call[i].overlapped
          /\ call[i].start[1].op = "signUserOperation"
          /\ call[i].start[1].target = Some(SudoValidator)
    /\ call[1].start[1].userOperation # call[2].start[1].userOperation
    /\ call[1].c.result # call[2].c.result

\* the session-key validator of the call in flight has returned a signature
\* from signUserOperation
SessionKeySigned ==
    /\ call.op = "signUserOperation"
    /\ call.pc = "done"
    /\ call.outcome = "ok"
    /\ call.v # None
    /\ call.v[1].kind = "SessionKeyValidator"

\* the number written by a 32-byte length prefix
PrefixValue(piece) == hexToBigInt(slice(piece, 2, Len(piece)))

\* the last hex digits of an ECDSA signature write 27 or 28
RecoveryIsNormalized(signature) ==
    /\ ByteLength(signature) = 65
    /\ toLowerCase(slice(signature, 130, 132)) \in {<<"1", "b">>, <<"1", "c">>}

\* pieces is the full layout: mode, execution window, validator and executor
\* addresses, length-prefixed enable data, length-prefixed enable signature,
\* session-key address, normalized ECDSA signature, permission segment
FullLayout(pieces, v) ==
    /\ Len(pieces) = 17
    /\ pieces[1] = v.mode
    /\ ByteLength(pieces[1]) = 4
    /\ ByteLength(pieces[2]) = 6
    /\ ByteLength(pieces[3]) = 6
    /\ pieces[4] = v.address
    /\ ByteLength(pieces[4]) = 20
    /\ pieces[5] = v.executorData.executor
    /\ ByteLength(pieces[5]) = 20
    /\ ByteLength(pieces[6]) = 32
    /\ PrefixValue(pieces[6]) = SumByteLength(SubSeq(pieces, 7, 12))
    /\ pieces[7] = v.sessionKey.address
    /\ pieces[8] = getHexRoot(v.merkleTree)
    /\ ByteLength(pieces[9]) = 6
    /\ ByteLength(pieces[10]) = 6
    /\ ByteLength(pieces[11]) = 20
    /\ ByteLength(pieces[12]) = 32
    /\ ByteLength(pieces[13]) = 32
    /\ PrefixValue(pieces[13]) = ByteLength(pieces[14])
    /\ pieces[14] = call.pluginEnableSignature[1]
    /\ pieces[15] = v.sessionKey.address
    /\ RecoveryIsNormalized(pieces[16])
    /\ pieces[17] = call.proof

\* C27 as stated: every signature the session-key validator returns has the
\* full layout.
C27_AsStated ==
    SessionKeySigned => FullLayout(call.result[1], call.v[1])

\* C27 amended: a signature returned by signUserOperation of a session-key
\* validator in enable mode has the full layout, each length prefix being the
\* byte length of the field after it; in sudo and plugin mode it is the
\* 4-byte mode followed at once by the session-key address, the ECDSA
\* signature with v normalized to 27 or 28, and the permission segment.
C27_SignatureLayoutByMode ==
    SessionKeySigned
    => LET pieces == call.result[1]
           v == call.v[1]
       IN  IF v.mode = ModeEnable
           THEN FullLayout(pieces, v)
           ELSE /\ Len(pieces) = 4
                /\ pieces[1] = v.mode
                /\ ByteLength(pieces[1]) = 4
                /\ pieces[2] = v.sessionKey.address
                /\ RecoveryIsNormalized(pieces[3])
                /\ pieces[4] = call.proof

\* C27 witness: a signature in enable mode over a matched permission, the
\* signer having answered with recovery id 0
C27_Witness ==
    /\ SessionKeySigned
    /\ call.v[1].mode = ModeEnable
    /\ call.matching.kind # "undefined"
    /\ slice(call.signed[1], 130, 132) = <<"1", "b">>
    /\ Len(call.result[1]) = 17

\* the session-key validator of the call in flight, with a non-empty
\* permission list, was given an executeBatch call with no calls
EmptyBatchCase ==
    /\ call.validatorStarted
    /\ call.v[1].kind = "SessionKeyValidator"
    /\ Len(CallValidator.permissions) # 0
    /\ CallData.functionName = "executeBatch"
    /\ CallData.calls = <<>>

\* the encoding of an empty permission array with an empty proof list
EmptyPermissionData == <<"abi", "tuple[]", <<>>, "bytes32[]", <<>>>>

\* C28: for an executeBatch call with an empty call list and a non-empty
\* permission set, the matcher returns an empty list of permissions, the
\* signing call never fails with NoMatchingPermission, and a call that gets
\* past the header step returns a payload that ends with the encoding of an
\* empty permission array and an empty proof list.
C28_EmptyBatchIsAuthorized ==
    EmptyBatchCase
    => /\ findMatchingPermissions(CallValidator.permissions, CallData)
            = [kind |-> "array", perms |-> <<>>]
       /\ call.error # NoMatchingPermission
       /\ (call.pc = "done" /\ ~FailedBeforeMatching)
          => /\ call.outcome = "ok"
             /\ call.matching = [kind |-> "array", perms |-> <<>>]
             /\ call.proof = EmptyPermissionData
             /\ call.result[1][Len(call.result[1])] = EmptyPermissionData

\* C28 witness: signUserOperation of an empty batch returned a signature from
\* a validator with two permissions
C28_Witness ==
    /\ EmptyBatchCase
    /\ call.op = "signUserOperation"
    /\ call.outcome = "ok"
    /\ Len(CallValidator.permissions) = 2
    /\ call.proof = EmptyPermissionData

\* the hex digits of the call data from the offset of the rule on, at most 64
PresentDigits(rule, data) ==
    SubSeq(data, 11 + 2 * rule.offset, Min(Len(data), 74 + 2 * rule.offset))

\* a rule has been evaluated on call data that ends before the end of the
\* word at the offset of the rule
ShortCallDataCase ==
    /\ RuleEvaluated
    /\ Len(call.args[1].data) < 74 + 2 * call.args[1].rule.offset

\* C29: on call data that ends before the end of the word at the offset of a
\* rule, the evaluation never throws and the rule passes exactly when the
\* bytes that are present, with zeros put in front of them to make 32 bytes,
\* satisfy the operator against the parameter as unsigned integers; when no
\* byte is present the word is zero, and a rule with EQUAL and a zero
\* parameter passes.
C29_ShortCallDataIsZeroPadded ==
    ShortCallDataCase
    => LET rule == call.args[1].rule
           data == call.args[1].data
           present == PresentDigits(rule, data)
           word == [i \in 1..64 |->
                       IF i <= 64 - Len(present) THEN 0
                       ELSE hexDigitValue(present[i - (64 - Len(present))])]
           param == Uint256Digits(rule.param)
       IN  /\ Len(present) < 64
           /\ call.result[1] \in {"pass", "fail"}
           /\ call.result[1] = "pass" <=> Uint256Satisfies(word, param, rule.condition)
           /\ Len(data) <= 10 + 2 * rule.offset
              => /\ present = <<>>
                 /\ \A i \in 1..64 : word[i] = 0
                 /\ (rule.condition = EQUAL /\ \A i \in 1..64 : param[i] = 0)
                    => call.result[1] = "pass"

\* C29 witness: a rule with EQUAL and parameter zero passed at an offset
\* beyond the end of the call data
C29_Witness ==
    /\ ShortCallDataCase
    /\ call.args[1].data = SelA
    /\ call.args[1].rule.offset = 32
    /\ call.args[1].rule.condition = EQUAL
    /\ call.args[1].rule.param = Hx(Rep("0", 64))
    /\ call.result = Some("pass")

\* a rule passed on a single byte that equals its parameter
C29_PartialWordWitness ==
    /\ ShortCallDataCase
    /\ PresentDigits(call.args[1].rule, call.args[1].data) = <<"a", "B">>
    /\ call.args[1].rule.condition = EQUAL
    /\ call.args[1].rule.param = Hx(<<"A", "b">>)
    /\ call.result = Some("pass")

\* a createKernelAccount call over a session-key default validator that was
\* given no deployedAccountAddress
DerivedOverSessionKey(c) ==
    /\ c.op = "createKernelAccount"
    /\ c.args[1].defaultValidator.kind = "SessionKeyValidator"
    /\ c.args[1].deployedAccountAddress = None

\* C30: createKernelAccount with a session-key default validator and no
\* deployedAccountAddress never returns an account: the call waits for
\* getEnableData only, never for a nonce read nor for the sender-address
\* read, holds no enable data and no init code, and ends with the error
\* "Kernel account address not provided"; every account over a session-key
\* default validator was built at a supplied address.
C30_SessionKeyDefaultCannotDerive ==
    /\ DerivedOverSessionKey(call)
       => /\ call.pc \in {"getEnableData", "done"}
          /\ call.outcome # "ok"
          /\ call.result = None
          /\ call.enableData = None
          /\ call.initCode = None
          /\ call.pc = "done"
             => /\ call.outcome = "error"
                /\ call.error = "Kernel account address not provided"
    /\ \A a \in accounts :
          a.defaultValidator.kind = "SessionKeyValidator" => a.derivation = None

\* C30 witness: such a call has failed, with a plugin given as well
C30_Witness ==
    /\ DerivedOverSessionKey(call)
    /\ call.pc = "done"
    /\ call.outcome = "error"
    /\ call.error = "Kernel account address not provided"
    /\ call.args[1].plugin # None

====
